---- MODULE Spec2Model ----
(***************************************************************************)
(* A model of the lobby's game operations                                  *)
(* (crates/lobby/src/game/mod.rs): join_game, leave_game,                   *)
(* update_game_slot_settings, select_game_node, start_game,                *)
(* start_game_proceed, create_node_game, start_game_set_timeout and        *)
(* start_game_abort, over the in-memory player and game states, the        *)
(* database rows they read and write, and the per-state async locks.       *)
(*                                                                         *)
(* join_game and leave_game hold a player-state lock across the await of a *)
(* second lock, so they are modelled as tasks that take one step per lock  *)
(* acquisition.  Every other operation holds the game-state lock alone     *)
(* from its first statement to its last, so it is one step that needs the  *)
(* lock to be free.                                                        *)
(*                                                                         *)
(* The second part models the controller's client connections              *)
(* (crates/controller/src/client/mod.rs): serve's per-connection task and  *)
(* the dispatch loop of handle_stream, one step per select! branch, over   *)
(* the player registry's sender handles and each connection's outbound     *)
(* queue.                                                                  *)
(*                                                                         *)
(* The third part models pure functions, each under a specification whose  *)
(* initial states draw the inputs: the w3gs chat scope and GameSettings    *)
(* codecs (crates/w3gs/src/protocol/chat.rs, game.rs) on byte sequences,   *)
(* and the transposition of the ping books in the controller's ping        *)
(* snapshot handler.                                                       *)
(***************************************************************************)
EXTENDS Integers, Sequences, FiniteSets, TLC

\* ---------------------------------------------------------------- bounds
NumPlayers == 3
NumGames == 1
NumTasks == 2
NumJoiners == 2
NumNodes == 1
NumSettings == 2
NumVersions == 2
NumSha1 == 2
NumConns == 2
NumConnPlayers == 2
NumClientVersions == 2
MaxPings == 1
MaxFrames == 2
MaxCasts == 2
\* the parts PING_INTERVAL is divided into
PingTicks == 2
NumPingNodes == 2
NumPings == 2

Players == 1 .. NumPlayers
Games == 1 .. NumGames
\* the ids a caller may pass: the last one is no registered game
GameIds == 1 .. (NumGames + 1)
Tasks == 1 .. NumTasks
\* the players that call join_game / leave_game beside the game operations
Joiners == 1 .. NumJoiners
Nodes == 1 .. NumNodes
Settings == 1 .. NumSettings
\* the TCP connections the listener accepts, and the players they log in
Conns == 1 .. NumConns
ConnPlayers == 1 .. NumConnPlayers
\* the client versions a handshake may carry, and flo_constants::MIN_FLO_VERSION
ClientVersions == 1 .. NumClientVersions
MIN_FLO_VERSION == 2

\* Option::None, for ids, lock holders, tokens
None == 0

\* PacketGameStartPlayerClientInfoRequest: <<war3_version, map_sha1>>
Infos == (1 .. NumVersions) \X (1 .. NumSha1)
NoInfo == <<None, None>>
\* a HashMap<i32, ..> over the players: NoInfo / None marks an absent key
EmptyInfoMap == [p \in Players |-> NoInfo]
EmptyTokenMap == [p \in Players |-> None]
Keys(m) == {p \in Players : m[p] # NoInfo}

\* the game a player hosts: game g was created by player g
HostOf(g) == g

VARIABLES
  joined,      \* player state: joined_game_id (None or a game id)
  players,     \* game state: the in-memory player list
  status,      \* game state: Preparing / Starting / Created / Ended
  node,        \* game state: the selected node id (None or a node)
  startState,  \* game state: the start state's collected client infos
  events,      \* the start events raised for a game and not yet handled
  proceedMap,  \* the client infos the raised proceed event carries
  dbSlots,     \* database: the players in the game's slots
  dbSettings,  \* database: each player's slot settings
  dbNode,      \* database: the game's node
  dbTokens,    \* database: the persisted player tokens
  playerLock,  \* the task holding each player-state lock (None: free)
  gameLock,    \* the task holding each game-state lock (None: free)
  task,        \* each task's running join_game / leave_game call
  last,        \* the operation that returned last: its result and packets
  conn,        \* each connection's task: position, player, frames written
  registry,    \* player registry: the connection whose sender is registered
  queue,       \* each connection's PlayerReceiver: the messages not yet taken
  frameNo,     \* the number of packets handed to player senders so far
  casts,       \* each caller's broadcast in flight: the recipients still due
  inbox,       \* each player's outbound queue of broadcast packets
  castNo,      \* the number of broadcasts issued so far
  call         \* the codec or handler call under way: its input and results

coreVars == <<joined, players, status, node, startState>>
evVars == <<events, proceedMap>>
memVars == <<coreVars, evVars>>
dbVars == <<dbSlots, dbSettings, dbNode, dbTokens>>
lockVars == <<playerLock, gameLock>>
connVars == <<conn, registry, queue, frameNo>>
lobbyVars == <<memVars, dbVars, lockVars, task, last>>
castVars == <<casts, inbox, castNo>>
vars == <<lobbyVars, connVars, castVars, call>>

\* ------------------------------------------------------------- packets
\* A packet handed to a player's sender ("sender") or to a broadcaster
\* ("broadcast"); unused fields hold None / the empty map.
Pkt(to, via, type, g, p, x, msg, m) ==
  [to |-> to, via |-> via, type |-> type, game |-> g, player |-> p,
   arg |-> x, message |-> msg, map |-> m]

\* PacketGameStartReject { game_id, message, player_client_info_map }
GameStartReject(to, via, g, msg, m) ==
  Pkt(to, via, "GameStartReject", g, None, <<None, None>>, msg, m)
\* PacketGamePlayerToken { node_id, game_id, player_token }
GamePlayerToken(to, g, n, token) ==
  Pkt(to, "broadcast", "GamePlayerToken", g, None, <<n, token>>, "", EmptyInfoMap)

SessionUpdate(to, jg) ==
  Pkt(to, "sender", "PlayerSessionUpdate", jg, to, <<None, None>>, "", EmptyInfoMap)
GameInfo(to, g) ==
  Pkt(to, "sender", "GameInfo", g, None, <<None, None>>, "", EmptyInfoMap)
\* Broadcaster::broadcast: the same packet for every target
Broadcast(targets, type, g, p, x, msg, m) ==
  {Pkt(q, "broadcast", type, g, p, x, msg, m) : q \in targets}

\* ---------------------------------------------------- state primitives
\* lock_game_state finds the registered games that are not closed
GameFound(g) == g \in Games /\ status[g] # "Ended"
\* LockedGameState::player_slots_locked
player_slots_locked(g) == status[g] \in {"Starting", "Created"}

IdleTask ==
  [pc |-> "idle", op |-> "none", p |-> None, g |-> None, jg |-> None,
   todo |-> <<>>, out |-> {}]

\* What the operation that returned last did: its result, the game's status
\* when it took the lock, the packets it handed to senders and
\* broadcasters, the players it found a sender for, the outcome of the
\* node's create_game ("none": not called), and the client info map it was
\* handed (start_game_proceed).
Result(op, g, p, res, pre, sent, called) ==
  [op |-> op, game |-> g, player |-> p, res |-> res, pre |-> pre,
   sent |-> sent, nodeCall |-> called,
   online |-> {pkt.to : pkt \in {x \in sent : x.via = "sender"}},
   map |-> EmptyInfoMap]

StatusOf(g) == IF g \in Games THEN status[g] ELSE "NotFound"

\* no broadcast in flight
NoCast == [no |-> None, todo |-> {}, after |-> {}]

\* what the database holds for a connecting player: the game of the last
\* active slot, that game's node and whether a node token is stored; here
\* the player has no active slot
NoActiveSlot == [game_id |-> None, node_id |-> None, token |-> FALSE]

\* a connection the listener has not yet accepted: nothing written, no
\* heartbeat timeout task, no abort handle, no pending notification.
\* History fields: displaced (a later Connect of the same player replaced
\* this connection's sender), hs (the outcome of the handshake), exit (why
\* the dispatch loop was left), heard (a frame was received and handled
\* since the last Ping), db (the row send_initial_state read), connects and
\* disconnects (the Connect and Disconnect messages sent to the registry).
\* elapsed is the time since the loop's current next_ping delay was created.
NewConn ==
  [pc |-> "listening", player |-> None, written |-> <<>>, timer |-> "off",
   abort |-> FALSE, notified |-> FALSE, pings |-> 0, displaced |-> FALSE,
   hs |-> "none", exit |-> [why |-> "none", err |-> "none"],
   heard |-> FALSE, connects |-> 0, disconnects |-> 0, db |-> NoActiveSlot,
   elapsed |-> 0]

\* the servers' state after construction
InitServers ==
  /\ joined = [p \in Players |-> IF p \in Games THEN p ELSE None]
  /\ players = [g \in Games |-> {HostOf(g)}]
  /\ status = [g \in Games |-> "Preparing"]
  /\ node = [g \in Games |-> None]
  /\ startState = [g \in Games |-> EmptyInfoMap]
  /\ events = [g \in Games |-> {}]
  /\ proceedMap = [g \in Games |-> EmptyInfoMap]
  /\ dbSlots = [g \in Games |-> {HostOf(g)}]
  /\ dbSettings = [p \in Players |-> 1]
  /\ dbNode = [g \in Games |-> None]
  /\ dbTokens = [g \in Games |-> EmptyTokenMap]
  /\ playerLock = [p \in Players |-> None]
  /\ gameLock = [g \in Games |-> None]
  /\ task = [t \in Tasks |-> IdleTask]
  /\ last = Result("none", None, None, "none", "none", {}, "none")
  /\ conn = [c \in Conns |-> NewConn]
  /\ registry = [p \in ConnPlayers |-> None]
  /\ queue = [c \in Conns |-> <<>>]
  /\ frameNo = 0
  /\ casts = [t \in Tasks |-> NoCast]
  /\ inbox = [p \in Players |-> <<>>]
  /\ castNo = 0

\* no codec or handler call is under way
Init ==
  /\ InitServers
  /\ call = [op |-> "none"]

\* ------------------------------------------------------- helper moves
\* every order in which a Vec / HashMap over S may be visited
Orders(S) ==
  {s \in [1 .. Cardinality(S) -> S] : \A i, j \in DOMAIN s : i # j => s[i] # s[j]}

\* LockedGameState::remove_player / add_player on the in-memory list
remove_player(list, id) == list \ {id}
add_player(list, id) == list \cup {id}

\* a call returns: the task is idle again and its result is recorded
Return(t, res, pre, sent) ==
  /\ task' = [task EXCEPT ![t] = IdleTask]
  /\ last' = Result(task[t].op, task[t].g, task[t].p, res, pre, sent, "none")

Release(locks, t) == [x \in DOMAIN locks |-> IF locks[x] = t THEN None ELSE locks[x]]

\* ------------------------------------------------------------ join_game
\* (mutant) join_game without the MultiJoin check
JoinLockPlayer_NoMultiJoin(t, p, g) ==
  /\ UNCHANGED <<connVars, castVars, call>>
  /\ task[t].pc = "idle"
  /\ playerLock[p] = None
  /\ playerLock' = [playerLock EXCEPT ![p] = t]
  /\ task' = [task EXCEPT ![t] =
       [IdleTask EXCEPT !.pc = "join_lock_game", !.op = "join_game",
                        !.p = p, !.g = g]]
  /\ UNCHANGED <<memVars, dbVars, gameLock, last>>

\* The call, lock_player_state(player_id).await and the MultiJoin check.  A
\* call that waits for its first lock holds nothing yet, so the call starts
\* when the lock is free.
JoinLockPlayer(t, p, g) ==
  /\ UNCHANGED <<connVars, castVars, call>>
  /\ task[t].pc = "idle"
  /\ playerLock[p] = None
  /\ IF joined[p] # None
       THEN /\ last' = Result("join_game", g, p, "MultiJoin", StatusOf(g), {}, "none")
            /\ UNCHANGED <<memVars, dbVars, lockVars, task>>
       ELSE /\ playerLock' = [playerLock EXCEPT ![p] = t]
            /\ task' = [task EXCEPT ![t] =
                 [IdleTask EXCEPT !.pc = "join_lock_game", !.op = "join_game",
                                  !.p = p, !.g = g]]
            /\ UNCHANGED <<memVars, dbVars, gameLock, last>>

\* Whether a player state holds a sender (get_sender_cloned,
\* get_player_sender) is the connection plane's doing: an input, read where
\* the code asks for the sender.
SenderCases == {"none", "ok", "fail1", "fail2"}

\* (mutant) GamePlayerEnter goes to every player of the game, joiner included
JoinSent_EchoToJoiner(p, g, slots, how) ==
  CASE how = "none" ->
         Broadcast(slots, "GamePlayerEnter", g, p, <<None, None>>, "",
                   EmptyInfoMap)
    [] how = "fail1" -> {}
    [] how = "fail2" -> {SessionUpdate(p, g)}
    [] OTHER -> {SessionUpdate(p, g), GameInfo(p, g)}
                \cup Broadcast(slots, "GamePlayerEnter", g, p,
                               <<None, None>>, "", EmptyInfoMap)

\* the packets join_game sends once the database join succeeded: the
\* joiner has no sender ("none"), both sends succeed ("ok"), or the first
\* or the second send to the joiner fails
JoinSent(p, g, slots, how) ==
  CASE how = "none" ->
         Broadcast(slots \ {p}, "GamePlayerEnter", g, p, <<None, None>>, "",
                   EmptyInfoMap)
    [] how = "fail1" -> {}
    [] how = "fail2" -> {SessionUpdate(p, g)}
    [] OTHER -> {SessionUpdate(p, g), GameInfo(p, g)}
                \cup Broadcast(slots \ {p}, "GamePlayerEnter", g, p,
                               <<None, None>>, "", EmptyInfoMap)

\* lock_game_state(game_id).await and the rest of join_game
JoinLockGame_call(t) ==
  LET p == task[t].p
      g == task[t].g
  IN /\ task[t].pc = "join_lock_game"
     /\ playerLock' = Release(playerLock, t)
     /\ UNCHANGED <<gameLock>>
     /\ IF ~GameFound(g)
          THEN /\ Return(t, "GameNotFound", StatusOf(g), {})
               /\ UNCHANGED <<memVars, dbVars>>
          ELSE
            /\ gameLock[g] = None
            /\ IF player_slots_locked(g)
                 THEN /\ Return(t, "GameBusy", status[g], {})
                      /\ UNCHANGED <<memVars, dbVars>>
                 ELSE
                   \/ \* db.exec(join; get_full) fails
                      /\ Return(t, "DbError", status[g], {})
                      /\ UNCHANGED <<memVars, dbVars>>
                   \/ \E how \in SenderCases :
                        /\ dbSlots' = [dbSlots EXCEPT ![g] = @ \cup {p}]
                        /\ joined' = [joined EXCEPT ![p] = g]
                        /\ players' = [players EXCEPT ![g] = add_player(@, p)]
                        /\ Return(t, IF how \in {"none", "ok"} THEN "Ok" ELSE "SendError",
                                  status[g],
                                  JoinSent(p, g, dbSlots[g] \cup {p}, how))
                        /\ UNCHANGED <<status, node, startState, events, proceedMap,
                                       dbSettings, dbNode, dbTokens>>

\* join_game's second step, called where no broadcast is followed
JoinLockGame(t) ==
  /\ JoinLockGame_call(t)
  /\ UNCHANGED <<connVars, castVars, call>>

\* ----------------------------------------------------------- leave_game
\* (mutant) leave_game working on the game named in its argument
LeaveLockPlayer_ArgGame(t, p, g) ==
  /\ task[t].pc = "idle"
  /\ playerLock[p] = None
  /\ IF joined[p] = None
       THEN /\ last' = Result("leave_game", g, p, "Ok", StatusOf(g), {}, "none")
            /\ UNCHANGED <<memVars, dbVars, lockVars, task>>
       ELSE /\ playerLock' = [playerLock EXCEPT ![p] = t]
            /\ task' = [task EXCEPT ![t] =
                 [IdleTask EXCEPT !.pc = "leave_lock_game", !.op = "leave_game",
                                  !.p = p, !.g = g, !.jg = g]]
            /\ UNCHANGED <<memVars, dbVars, gameLock, last>>

\* The call, lock_player_state(player_id).await and the joined_game_id
\* check.  game_id is only compared (and a mismatch logged): from here on
\* leave_game works on player_state_game_id.
LeaveLockPlayer_call(t, p, g) ==
  /\ task[t].pc = "idle"
  /\ playerLock[p] = None
  /\ IF joined[p] = None
       THEN /\ last' = Result("leave_game", g, p, "Ok", StatusOf(g), {}, "none")
            /\ UNCHANGED <<memVars, dbVars, lockVars, task>>
       ELSE /\ playerLock' = [playerLock EXCEPT ![p] = t]
            /\ task' = [task EXCEPT ![t] =
                 [IdleTask EXCEPT !.pc = "leave_lock_game", !.op = "leave_game",
                                  !.p = p, !.g = joined[p], !.jg = joined[p]]]
            /\ UNCHANGED <<memVars, dbVars, gameLock, last>>

\* leave_game's first step, called where the argument is not recorded
LeaveLockPlayer(t, p, g) ==
  /\ LeaveLockPlayer_call(t, p, g)
  /\ UNCHANGED <<connVars, castVars, call>>

\* db::leave: the game ends when the host or the last member leaves
LeaveEnds(g, p) == p = HostOf(g) \/ dbSlots[g] \subseteq {p}

\* (mutant) leave_game broadcasting GamePlayerLeave to the leaver as well
LeaveLockGame_EchoToLeaver(t) ==
  LET p == task[t].p
      g == task[t].jg
  IN /\ task[t].pc = "leave_lock_game"
     /\ UNCHANGED <<connVars, castVars, call>>
     /\ IF ~GameFound(g)
          THEN /\ Return(t, "GameNotFound", StatusOf(g), {})
               /\ playerLock' = Release(playerLock, t)
               /\ UNCHANGED <<memVars, dbVars, gameLock>>
          ELSE
            /\ gameLock[g] = None
            /\ IF player_slots_locked(g)
                 THEN /\ Return(t, "GameBusy", status[g], {})
                      /\ playerLock' = Release(playerLock, t)
                      /\ UNCHANGED <<memVars, dbVars, gameLock>>
                 ELSE
                   \/ \* db.exec(leave) fails
                      /\ Return(t, "DbError", status[g], {})
                      /\ playerLock' = Release(playerLock, t)
                      /\ UNCHANGED <<memVars, dbVars, gameLock>>
                   \/ \* leave.game_ended: start the loop over removed_players
                      /\ LeaveEnds(g, p)
                      /\ \E order \in Orders(dbSlots[g]) :
                           task' = [task EXCEPT ![t].pc = "leave_evict",
                                                ![t].todo = order]
                      /\ gameLock' = [gameLock EXCEPT ![g] = t]
                      /\ dbSlots' = [dbSlots EXCEPT ![g] = {}]
                      /\ dbSettings' = [q \in Players |->
                           IF q \in dbSlots[g] THEN 1 ELSE dbSettings[q]]
                      /\ UNCHANGED <<memVars, dbNode, dbTokens, playerLock, last>>
                   \/ \* the game goes on
                      /\ ~LeaveEnds(g, p)
                      /\ joined' = [joined EXCEPT ![p] = None]
                      /\ players' = [players EXCEPT ![g] = remove_player(@, p)]
                      /\ dbSlots' = [dbSlots EXCEPT ![g] = @ \ {p}]
                      /\ dbSettings' = [dbSettings EXCEPT ![p] = 1]
                      /\ \E has_sender \in BOOLEAN :
                         Return(t, "Ok", status[g],
                           (IF has_sender THEN {SessionUpdate(p, None)} ELSE {})
                           \cup Broadcast(dbSlots[g], "GamePlayerLeave",
                                          g, p, <<None, None>>, "", EmptyInfoMap))
                      /\ playerLock' = Release(playerLock, t)
                      /\ UNCHANGED <<status, node, startState, events, proceedMap,
                                     dbNode, dbTokens, gameLock>>

\* lock_game_state(player_state_game_id).await, db::leave, and the branch
\* of a game that goes on
LeaveLockGame_call(t) ==
  LET p == task[t].p
      g == task[t].jg
  IN /\ task[t].pc = "leave_lock_game"
     /\ IF ~GameFound(g)
          THEN /\ Return(t, "GameNotFound", StatusOf(g), {})
               /\ playerLock' = Release(playerLock, t)
               /\ UNCHANGED <<memVars, dbVars, gameLock>>
          ELSE
            /\ gameLock[g] = None
            /\ IF player_slots_locked(g)
                 THEN /\ Return(t, "GameBusy", status[g], {})
                      /\ playerLock' = Release(playerLock, t)
                      /\ UNCHANGED <<memVars, dbVars, gameLock>>
                 ELSE
                   \/ \* db.exec(leave) fails
                      /\ Return(t, "DbError", status[g], {})
                      /\ playerLock' = Release(playerLock, t)
                      /\ UNCHANGED <<memVars, dbVars, gameLock>>
                   \/ \* leave.game_ended: start the loop over removed_players
                      /\ LeaveEnds(g, p)
                      /\ \E order \in Orders(dbSlots[g]) :
                           task' = [task EXCEPT ![t].pc = "leave_evict",
                                                ![t].todo = order]
                      /\ gameLock' = [gameLock EXCEPT ![g] = t]
                      /\ dbSlots' = [dbSlots EXCEPT ![g] = {}]
                      /\ dbSettings' = [q \in Players |->
                           IF q \in dbSlots[g] THEN 1 ELSE dbSettings[q]]
                      /\ UNCHANGED <<memVars, dbNode, dbTokens, playerLock, last>>
                   \/ \* the game goes on
                      /\ ~LeaveEnds(g, p)
                      /\ joined' = [joined EXCEPT ![p] = None]
                      /\ players' = [players EXCEPT ![g] = remove_player(@, p)]
                      /\ dbSlots' = [dbSlots EXCEPT ![g] = @ \ {p}]
                      /\ dbSettings' = [dbSettings EXCEPT ![p] = 1]
                      /\ \E has_sender \in BOOLEAN :
                         Return(t, "Ok", status[g],
                           (IF has_sender THEN {SessionUpdate(p, None)} ELSE {})
                           \cup Broadcast(dbSlots[g] \ {p}, "GamePlayerLeave",
                                          g, p, <<None, None>>, "", EmptyInfoMap))
                      /\ playerLock' = Release(playerLock, t)
                      /\ UNCHANGED <<status, node, startState, events, proceedMap,
                                     dbNode, dbTokens, gameLock>>

\* leave_game's second step, called where no broadcast is followed
LeaveLockGame(t) ==
  /\ LeaveLockGame_call(t)
  /\ UNCHANGED <<connVars, castVars, call>>

\* the id the loop over removed_players hands to game_guard.remove_player
EvictRemoves(player_id, removed_player_id) == player_id

\* one iteration of `for removed_player_id in leave.removed_players`
LeaveEvict(t) ==
  LET p == task[t].p
      g == task[t].jg
      q == Head(task[t].todo)
  IN /\ task[t].pc = "leave_evict"
     /\ UNCHANGED <<connVars, castVars, call>>
     /\ task[t].todo # <<>>
     \* lock_player_state(removed_player_id).await, dropped with the iteration
     /\ q # p => playerLock[q] = None
     /\ players' = [players EXCEPT ![g] = remove_player(@, EvictRemoves(p, q))]
     /\ joined' = [joined EXCEPT ![q] = None]
     /\ \E has_sender \in BOOLEAN :
          task' = [task EXCEPT ![t].todo = Tail(@),
                               ![t].out = @ \cup (IF has_sender
                                                    THEN {SessionUpdate(q, None)}
                                                    ELSE {})]
     /\ UNCHANGED <<status, node, startState, events,
                    proceedMap, dbVars, lockVars, last>>

\* LockedGameState::close
close(g) == [status EXCEPT ![g] = "Ended"]

\* after the loop: game_guard.close(), the collected sends, the guards drop
LeaveClose(t) ==
  LET g == task[t].jg
  IN /\ task[t].pc = "leave_evict"
     /\ UNCHANGED <<connVars, castVars, call>>
     /\ task[t].todo = <<>>
     /\ status' = close(g)
     /\ Return(t, "Ok", status[g], task[t].out)
     /\ playerLock' = Release(playerLock, t)
     /\ gameLock' = Release(gameLock, t)
     /\ UNCHANGED <<joined, players, node, startState,
                    events, proceedMap, dbVars>>

\* ------------------------------------------- operations on one game
\* An operation that takes the game-state lock alone waits for it; a game
\* that is not found is answered without any lock.
GameLockFree(g) == GameFound(g) => gameLock[g] = None

\* the operation returns `res` and changed nothing
Refuse(op, g, p, res) ==
  /\ last' = Result(op, g, p, res, StatusOf(g), {}, "none")
  /\ UNCHANGED <<coreVars, dbVars>>

\* LockedGameState::get_host_player / has_player
get_host_player(g) == HostOf(g)
has_player(g, p) == p \in players[g]

\* ------------------------------------------- update_game_slot_settings
\* (mutant) update_game_slot_settings without the has_player check
update_game_slot_settings_AnyPlayer(g, p, settings) ==
  /\ UNCHANGED <<connVars, castVars, call>>
  /\ GameLockFree(g)
  /\ UNCHANGED <<lockVars, task, evVars>>
  /\ IF ~GameFound(g) THEN Refuse("update_game_slot_settings", g, p, "GameNotFound")
     ELSE
       \/ Refuse("update_game_slot_settings", g, p, "DbError")
       \/ IF p \notin dbSlots[g]
            THEN Refuse("update_game_slot_settings", g, p, "PlayerSlotNotFound")
            ELSE /\ dbSettings' = [dbSettings EXCEPT ![p] = settings]
                 /\ last' = Result("update_game_slot_settings", g, p, "Ok",
                      status[g],
                      Broadcast(players[g], "GameSlotUpdate", g, p,
                                <<settings, None>>, "", EmptyInfoMap), "none")
                 /\ UNCHANGED <<coreVars, dbSlots, dbNode, dbTokens>>

update_game_slot_settings_call(g, p, settings) ==
  /\ GameLockFree(g)
  /\ UNCHANGED <<lockVars, task, evVars>>
  /\ IF ~GameFound(g) THEN Refuse("update_game_slot_settings", g, p, "GameNotFound")
     ELSE IF ~has_player(g, p)
       THEN Refuse("update_game_slot_settings", g, p, "PlayerNotInGame")
     ELSE
       \/ Refuse("update_game_slot_settings", g, p, "DbError")
       \/ IF p \notin dbSlots[g]
            THEN Refuse("update_game_slot_settings", g, p, "PlayerSlotNotFound")
            ELSE /\ dbSettings' = [dbSettings EXCEPT ![p] = settings]
                 /\ last' = Result("update_game_slot_settings", g, p, "Ok",
                      status[g],
                      Broadcast(players[g], "GameSlotUpdate", g, p,
                                <<settings, None>>, "", EmptyInfoMap), "none")
                 /\ UNCHANGED <<coreVars, dbSlots, dbNode, dbTokens>>

\* update_game_slot_settings, with its broadcast delivered within the call
update_game_slot_settings(g, p, settings) ==
  /\ UNCHANGED <<connVars, castVars, call>>
  /\ update_game_slot_settings_call(g, p, settings)

\* ---------------------------------------------------- select_game_node
\* (mutant) select_game_node without the host check
select_game_node_AnyPlayer(g, p, node_id) ==
  /\ UNCHANGED <<connVars, castVars, call>>
  /\ GameLockFree(g)
  /\ UNCHANGED <<lockVars, task, evVars>>
  /\ IF ~GameFound(g) THEN Refuse("select_game_node", g, p, "GameNotFound")
     ELSE
       \/ Refuse("select_game_node", g, p, "DbError")
       \/ /\ dbNode' = [dbNode EXCEPT ![g] = node_id]
          /\ node' = [node EXCEPT ![g] = node_id]
          /\ last' = Result("select_game_node", g, p, "Ok", status[g],
               Broadcast(players[g], "GameSelectNode", g, None,
                         <<node_id, None>>, "", EmptyInfoMap), "none")
          /\ UNCHANGED <<joined, players, status, startState, dbSlots, dbSettings, dbTokens>>

select_game_node_call(g, p, node_id) ==
  /\ GameLockFree(g)
  /\ UNCHANGED <<lockVars, task, evVars>>
  /\ IF ~GameFound(g) THEN Refuse("select_game_node", g, p, "GameNotFound")
     ELSE IF get_host_player(g) # p
       THEN Refuse("select_game_node", g, p, "PlayerNotHost")
     ELSE
       \/ Refuse("select_game_node", g, p, "DbError")
       \/ /\ dbNode' = [dbNode EXCEPT ![g] = node_id]
          /\ node' = [node EXCEPT ![g] = node_id]
          /\ last' = Result("select_game_node", g, p, "Ok", status[g],
               Broadcast(players[g], "GameSelectNode", g, None,
                         <<node_id, None>>, "", EmptyInfoMap), "none")
          /\ UNCHANGED <<joined, players, status, startState, dbSlots, dbSettings, dbTokens>>

\* select_game_node, with its broadcast delivered within the call
select_game_node(g, p, node_id) ==
  /\ UNCHANGED <<connVars, castVars, call>>
  /\ select_game_node_call(g, p, node_id)

\* ------------------------------------------------------------ start_game
\* LockedGameState::start: a Preparing game gets a start state
start(g) == status[g] = "Preparing"

\* (mutant) start_game without the host check
start_game_AnyPlayer(g, p) ==
  /\ UNCHANGED <<connVars, castVars, call>>
  /\ GameLockFree(g)
  /\ UNCHANGED <<lockVars, task, evVars>>
  /\ IF ~GameFound(g) THEN Refuse("start_game", g, p, "GameNotFound")
     ELSE IF player_slots_locked(g) THEN Refuse("start_game", g, p, "GameBusy")
     ELSE
       \/ Refuse("start_game", g, p, "DbError")
       \/ IF dbNode[g] = None
            THEN Refuse("start_game", g, p, "GameNodeNotSelected")
            ELSE /\ status' = [status EXCEPT ![g] = "Starting"]
                 /\ startState' = [startState EXCEPT ![g] = EmptyInfoMap]
                 /\ last' = Result("start_game", g, p, "Ok", status[g],
                      Broadcast(players[g], "GameStarting", g, None,
                                <<None, None>>, "", EmptyInfoMap), "none")
                 /\ UNCHANGED <<joined, players, node, dbVars>>

start_game(g, p) ==
  /\ UNCHANGED <<connVars, castVars, call>>
  /\ GameLockFree(g)
  /\ UNCHANGED <<lockVars, task, evVars>>
  /\ IF ~GameFound(g) THEN Refuse("start_game", g, p, "GameNotFound")
     ELSE IF player_slots_locked(g) THEN Refuse("start_game", g, p, "GameBusy")
     ELSE IF get_host_player(g) # p
       THEN Refuse("start_game", g, p, "PlayerNotHost")
     ELSE
       \/ Refuse("start_game", g, p, "DbError")
       \/ IF dbNode[g] = None
            THEN Refuse("start_game", g, p, "GameNodeNotSelected")
            ELSE IF start(g)
              THEN /\ status' = [status EXCEPT ![g] = "Starting"]
                   /\ startState' = [startState EXCEPT ![g] = EmptyInfoMap]
                   /\ last' = Result("start_game", g, p, "Ok", status[g],
                        Broadcast(players[g], "GameStarting", g, None,
                                  <<None, None>>, "", EmptyInfoMap), "none")
                   /\ UNCHANGED <<joined, players, node,
                                  dbVars>>
              ELSE /\ last' = Result("start_game", g, p, "Ok", status[g], {}, "none")
                   /\ UNCHANGED <<coreVars, dbVars>>

\* ------------------------------------------------ the start state's events
\* A player's client info is collected while the game is Starting; the ack
\* that completes the map raises the proceed event, which carries the map.
StartGamePlayerAck(g, p, info) ==
  /\ UNCHANGED <<connVars, castVars, call>>
  /\ gameLock[g] = None
  /\ status[g] = "Starting"
  /\ has_player(g, p)
  /\ startState[g][p] = NoInfo
  /\ "proceed" \notin events[g]
  /\ startState' = [startState EXCEPT ![g][p] = info]
  /\ IF Keys(startState'[g]) = players[g]
       THEN /\ events' = [events EXCEPT ![g] = @ \cup {"proceed"}]
            /\ proceedMap' = [proceedMap EXCEPT ![g] = startState'[g]]
       ELSE UNCHANGED <<events, proceedMap>>
  /\ UNCHANGED <<joined, players, status, node, dbVars,
                 lockVars, task, last>>

\* The start timeout runs out with the acks incomplete: the timeout event
StartTimeoutExpire(g) ==
  /\ UNCHANGED <<connVars, castVars, call>>
  /\ status[g] = "Starting"
  /\ Keys(startState[g]) # players[g]
  /\ "timeout" \notin events[g]
  /\ events' = [events EXCEPT ![g] = @ \cup {"timeout"}]
  /\ UNCHANGED <<joined, players, status, node, startState,
                 proceedMap, dbVars, lockVars, task, last>>

\* An internal error while the game is Starting: the abort event
StartAbortRaise(g) ==
  /\ UNCHANGED <<connVars, castVars, call>>
  /\ status[g] = "Starting"
  /\ "abort" \notin events[g]
  /\ events' = [events EXCEPT ![g] = @ \cup {"abort"}]
  /\ UNCHANGED <<joined, players, status, node, startState,
                 proceedMap, dbVars, lockVars, task, last>>

\* LockedGameState::start_game_reset: the start state is taken, and a
\* Starting game is Preparing again
start_game_reset(g) ==
  [status EXCEPT ![g] = IF @ = "Starting" THEN "Preparing" ELSE @]
\* ... and what the taken state's get_map() gives (default: empty)
TakenMap(g) == IF status[g] = "Starting" THEN startState[g] ELSE EmptyInfoMap

\* ---------------------------------------------------- start_game_proceed
\* (mutant) the loop compares the versions and not the map checksums
RECURSIVE ConsensusLoop_VersionOnly(_, _, _)
ConsensusLoop_VersionOnly(reqs, version, sha1) ==
  IF reqs = <<>> THEN TRUE
  ELSE LET req == Head(reqs)
           v == IF version = None THEN req[1] ELSE version
       IN IF v # req[1] THEN FALSE
          ELSE ConsensusLoop_VersionOnly(Tail(reqs), v, sha1)

\* the consensus loop over map.values(), visited in the order `reqs`
RECURSIVE ConsensusLoop(_, _, _)
ConsensusLoop(reqs, version, sha1) ==
  IF reqs = <<>> THEN TRUE
  ELSE LET req == Head(reqs)
           v == IF version = None THEN req[1] ELSE version
           h == IF sha1 = None THEN req[2] ELSE sha1
       IN IF v # req[1] THEN FALSE
          ELSE IF h # req[2] THEN FALSE
          ELSE ConsensusLoop(Tail(reqs), v, h)

\* `pass` for the map visited in the order `order` of its keys
ConsensusPass(map, order) ==
  ConsensusLoop([i \in DOMAIN order |-> map[order[i]]], None, None)

\* the message create_node_game picks for a failed create_game
RejectMessage(err) ==
  CASE err = "GameCreateTimeout" -> "Create game timeout."
    [] err = "Reject:Unknown" -> "Create game request rejected."
    [] err = "Reject:GameExists" -> "Game already started."
    [] err = "Reject:PlayerBusy" -> "Create game request rejected: Player busy."
    [] err = "Reject:Maintenance" ->
         "Create game request rejected: Server Maintenance."
    [] OTHER -> "Internal error."

NodeErrors ==
  {"GameCreateTimeout", "Reject:Unknown", "Reject:GameExists",
   "Reject:PlayerBusy", "Reject:Maintenance", "Other"}

\* the token the node issues for a player
Token(p) == p

\* (mutant) the reply goes to every player of the game
RejectTargets_AllPlayers(g, has_sender) == IF has_sender THEN players[g] ELSE {}

\* whom create_node_game replies to when create_game failed: the host
\* player, if get_player_sender finds a sender
RejectTargets(g, has_sender) == IF has_sender THEN {get_host_player(g)} ELSE {}

\* what broadcast_by selects for a player from token_map
SelectToken(token_map, player_id) == token_map[player_id]

\* LockedGameState::start_complete
start_complete(g) == [status EXCEPT ![g] = "Created"]

\* the broadcast_by over the game's players: a GamePlayerToken for each
\* player token_map has a token for
TokenPackets(g, node_id, token_map) ==
  {GamePlayerToken(q, g, node_id, SelectToken(token_map, q)) :
     q \in {r \in players[g] : SelectToken(token_map, r) # None}}

VersionCheckFailed ==
  "Unable to start the game because the game and map version check failed."

\* create_node_game, called by `op` with the game-state lock held; m is
\* the client info map `op` was handed
create_node_game(op, g, m) ==
  \/ \* db.exec(get_full) fails
     /\ last' = [Result(op, g, None, "DbError", status[g], {}, "none")
                   EXCEPT !.map = m]
     /\ UNCHANGED <<coreVars, dbVars>>
  \/ /\ dbNode[g] = None
     /\ last' = [Result(op, g, None, "GameNodeNotSelected", status[g], {}, "none")
                   EXCEPT !.map = m]
     /\ UNCHANGED <<coreVars, dbVars>>
  \/ \* nodes.get_conn(node_id) fails
     /\ dbNode[g] # None
     /\ last' = [Result(op, g, None, "NodeConnError", status[g], {}, "none")
                   EXCEPT !.map = m]
     /\ UNCHANGED <<coreVars, dbVars>>
  \/ \* node_conn.create_game(&game) fails: reply to the host player
     /\ dbNode[g] # None
     /\ \E err \in NodeErrors, has_sender \in BOOLEAN :
          last' = [Result(op, g, None, "Ok", status[g],
                     {GameStartReject(q, "sender", g, RejectMessage(err),
                                      EmptyInfoMap) :
                        q \in RejectTargets(g, has_sender)}, err)
                     EXCEPT !.map = m,
                            !.online = IF has_sender THEN {get_host_player(g)}
                                       ELSE {}]
     /\ UNCHANGED <<coreVars, dbVars>>
  \/ \* Ok(created): start_complete, the token broadcast, update_created
     /\ dbNode[g] # None
     /\ \E issued \in SUBSET dbSlots[g], saved \in BOOLEAN :
          LET token_map == [q \in Players |-> IF q \in issued THEN Token(q) ELSE None]
          IN /\ status' = start_complete(g)
             /\ startState' = [startState EXCEPT ![g] = EmptyInfoMap]
             /\ dbTokens' = IF saved THEN [dbTokens EXCEPT ![g] = token_map]
                            ELSE dbTokens
             /\ last' = [Result(op, g, None, IF saved THEN "Ok" ELSE "DbError",
                           status[g], TokenPackets(g, dbNode[g], token_map), "Ok")
                           EXCEPT !.map = m]
             /\ UNCHANGED <<joined, players, node, dbSlots, dbSettings, dbNode>>

start_game_proceed(g) ==
  /\ UNCHANGED <<connVars, castVars, call>>
  /\ "proceed" \in events[g]
  /\ GameLockFree(g)
  /\ events' = [events EXCEPT ![g] = @ \ {"proceed"}]
  /\ proceedMap' = [proceedMap EXCEPT ![g] = EmptyInfoMap]
  /\ UNCHANGED <<lockVars, task>>
  /\ IF ~GameFound(g)
       THEN /\ last' = [Result("start_game_proceed", g, None, "GameNotFound",
                               StatusOf(g), {}, "none")
                          EXCEPT !.map = proceedMap[g]]
            /\ UNCHANGED <<coreVars, dbVars>>
       ELSE \E order \in Orders(Keys(proceedMap[g])) :
         IF ~ConsensusPass(proceedMap[g], order)
           THEN /\ status' = start_game_reset(g)
                /\ startState' = [startState EXCEPT ![g] = EmptyInfoMap]
                /\ last' = [Result("start_game_proceed", g, None, "Ok", status[g],
                     {GameStartReject(q, "broadcast", g, VersionCheckFailed,
                                      proceedMap[g]) : q \in players[g]}, "none")
                     EXCEPT !.map = proceedMap[g]]
                /\ UNCHANGED <<joined, players, node, dbVars>>
           ELSE create_node_game("start_game_proceed", g, proceedMap[g])

\* ------------------------------------------------ start_game_set_timeout
start_game_set_timeout(g) ==
  /\ UNCHANGED <<connVars, castVars, call>>
  /\ "timeout" \in events[g]
  /\ GameLockFree(g)
  /\ events' = [events EXCEPT ![g] = @ \ {"timeout"}]
  /\ UNCHANGED <<proceedMap, lockVars, task>>
  /\ IF ~GameFound(g) THEN Refuse("start_game_set_timeout", g, None, "GameNotFound")
     ELSE /\ status' = start_game_reset(g)
          /\ startState' = [startState EXCEPT ![g] = EmptyInfoMap]
          /\ last' = Result("start_game_set_timeout", g, None, "Ok", status[g],
               {GameStartReject(q, "broadcast", g,
                  "Some of the players didn't response in time.", TakenMap(g)) :
                  q \in players[g]}, "none")
          /\ UNCHANGED <<joined, players, node, dbVars>>

\* ------------------------------------------------------ start_game_abort
start_game_abort(g) ==
  /\ UNCHANGED <<connVars, castVars, call>>
  /\ "abort" \in events[g]
  /\ GameLockFree(g)
  /\ events' = [events EXCEPT ![g] = @ \ {"abort"}]
  /\ UNCHANGED <<proceedMap, lockVars, task>>
  /\ IF ~GameFound(g) THEN Refuse("start_game_abort", g, None, "GameNotFound")
     ELSE /\ status' = start_game_reset(g)
          /\ startState' = [startState EXCEPT ![g] = EmptyInfoMap]
          /\ UNCHANGED <<joined, players, node, dbSlots,
                         dbSettings, dbNode>>
          /\ \/ \* db.exec(update_reset_created) fails
                /\ last' = Result("start_game_abort", g, None, "DbError",
                                  status[g], {}, "none")
                /\ UNCHANGED dbTokens
             \/ /\ dbTokens' = [dbTokens EXCEPT ![g] = EmptyTokenMap]
                /\ last' = Result("start_game_abort", g, None, "Ok", status[g],
                     {GameStartReject(q, "broadcast", g,
                        "Unable to start the game because of a internal error.",
                        TakenMap(g)) : q \in players[g]}, "none")

\* the steps of the join_game and leave_game calls that the tasks T run for
\* the players P
LobbyNext(T, P) ==
  \/ \E t \in T, p \in P, g \in GameIds : JoinLockPlayer(t, p, g)
  \/ \E t \in T : JoinLockGame(t)
  \/ \E t \in T, p \in P, g \in GameIds :
       LeaveLockPlayer(t, p, g)
  \/ \E t \in T : LeaveLockGame(t)
  \/ \E t \in T : LeaveEvict(t)
  \/ \E t \in T : LeaveClose(t)

\* the operations on one game and the start events
GameNext ==
  \/ \E g \in Games, p \in Players, x \in Settings :
       update_game_slot_settings(g, p, x)
  \/ \E g \in Games, p \in Players, n \in Nodes \cup {None} :
       select_game_node(g, p, n)
  \/ \E g \in Games, p \in Players : start_game(g, p)
  \/ \E g \in Games, p \in Players, info \in Infos :
       StartGamePlayerAck(g, p, info)
  \/ \E g \in Games : StartTimeoutExpire(g)
  \/ \E g \in Games : StartAbortRaise(g)
  \/ \E g \in Games : start_game_proceed(g)
  \/ \E g \in Games : start_game_set_timeout(g)
  \/ \E g \in Games : start_game_abort(g)

\* Concurrent join_game / leave_game calls
NextLobby == LobbyNext(Tasks, Players)
SpecLobby == Init /\ [][NextLobby]_vars

\* leave_game(state, game_id, player_id) is called: the arguments and the
\* game the player state records are kept for the call's return
LeaveGameCall(t, p, g) ==
  /\ LeaveLockPlayer_call(t, p, g)
  /\ call' = [op |-> "leave_game", player_id |-> p, game_id |-> g,
              recorded |-> joined[p]]
  /\ UNCHANGED <<connVars, castVars>>

\* join_game / leave_game calls one at a time, by any player, for any game id
LeaveNext ==
  \/ \E p \in Players, g \in GameIds : JoinLockPlayer(NumTasks, p, g)
  \/ JoinLockGame(NumTasks)
  \/ \E p \in Players, g \in GameIds : LeaveGameCall(NumTasks, p, g)
  \/ LeaveLockGame(NumTasks)
  \/ LeaveEvict(NumTasks)
  \/ LeaveClose(NumTasks)

SpecLeave == Init /\ [][LeaveNext]_vars

\* Fair scheduling of the calls: a task that is, again and again, able to
\* take its next step takes it (the locks are fair mutexes)
SpecLobbyFair ==
  /\ SpecLobby
  /\ \A t \in Tasks :
       /\ SF_vars(JoinLockGame(t))
       /\ SF_vars(LeaveLockGame(t))
       /\ SF_vars(LeaveEvict(t))
       /\ SF_vars(LeaveClose(t))

\* The game operations, with join_game / leave_game calls one at a time
Next == LobbyNext({1}, Joiners) \/ GameNext
Spec == Init /\ [][Next]_vars

\* The event loop handles every raised start event, and a start timeout
\* that is running runs out.
Fairness ==
  \A g \in Games :
    /\ WF_vars(start_game_proceed(g))
    /\ WF_vars(start_game_set_timeout(g))
    /\ WF_vars(start_game_abort(g))
    /\ WF_vars(StartTimeoutExpire(g))
SpecFair == Spec /\ Fairness

\* ------------------------------------------------- client connections
\* a frame written to a connection's stream
Frame(type, reason, seq) == [type |-> type, reason |-> reason, seq |-> seq]
\* PlayerSenderMessage::Frame(frame) and ::Disconnect(reason)
FrameMsg(seq) == [kind |-> "Frame", reason |-> "none", seq |-> seq]
DisconnectMsg(reason) == [kind |-> "Disconnect", reason |-> reason, seq |-> None]

\* PacketClientConnectReject { lobby_version, reason }
ClientConnectReject(reason) ==
  [type |-> "ClientConnectReject", reason |-> reason, seq |-> None,
   lobby_version |-> "FLO_LOBBY_VERSION"]
\* PacketClientConnectAccept { lobby_version, session { status, game_id }, nodes }
ClientConnectAccept(game_id) ==
  [type |-> "ClientConnectAccept", reason |-> "none", seq |-> None,
   lobby_version |-> "FLO_LOBBY_VERSION",
   status |-> IF game_id # None THEN "InGame" ELSE "Idle",
   game_id |-> game_id]
\* PacketGameInfo { game }
GameInfoFrame(game_id) ==
  [type |-> "GameInfo", reason |-> "none", seq |-> None, game_id |-> game_id]
\* PacketGamePlayerToken { node_id, game_id, player_id, player_token }
GamePlayerTokenFrame(node_id, game_id, player_id) ==
  [type |-> "GamePlayerToken", reason |-> "none", seq |-> None,
   node_id |-> node_id, game_id |-> game_id, player_id |-> player_id]

\* why a handler left its dispatch loop
Exit(why, err) == [why |-> why, err |-> err]

\* what the database may hold for a connecting player
ActiveSlots ==
  {NoActiveSlot} \cup
  {[game_id |-> g, node_id |-> n, token |-> t] :
     g \in Games, n \in {None} \cup Nodes, t \in BOOLEAN}

\* variant: the token frame is pushed before the game info
InitialFrames_TokenBeforeInfo(player_id, db) ==
  LET accept == <<ClientConnectAccept(db.game_id)>>
  IN IF db.game_id = None THEN accept
     ELSE IF ~db.token THEN accept \o <<GameInfoFrame(db.game_id)>>
     ELSE IF db.node_id = None THEN <<>>
     ELSE accept \o <<GamePlayerTokenFrame(db.node_id, db.game_id, player_id),
                      GameInfoFrame(db.game_id)>>

\* the frames send_initial_state builds; <<>> stands for an Err return
\* (GameNodeNotSelected: a token is stored but the game has no node)
InitialFrames(player_id, db) ==
  LET accept == <<ClientConnectAccept(db.game_id)>>
  IN IF db.game_id = None THEN accept
     ELSE IF ~db.token THEN accept \o <<GameInfoFrame(db.game_id)>>
     ELSE IF db.node_id = None THEN <<>>
     ELSE accept \o <<GameInfoFrame(db.game_id),
                      GamePlayerTokenFrame(db.node_id, db.game_id, player_id)>>

\* the request frames the dispatch loop handles
Requests ==
  {"Pong", "SlotUpdate", "ListNodes", "PingMapUpdate", "PingSnapshot",
   "SelectNode", "Start", "ClientInfo"}

\* the outcomes of a request's handler: "state_error" is an Err the addressed
\* actor's handler returned as its reply, "other_error" an Err of the send to
\* the actor, of decoding or of packing
HandlerResults(req) ==
  CASE req = "Pong" -> {"ok"}
    [] req \in {"ListNodes", "PingSnapshot"} -> {"ok", "other_error"}
    [] OTHER -> {"ok", "state_error", "other_error"}

\* whether the handler returns Err to the dispatch loop: `.await?` drops the
\* actor's reply, `.await??` of the ping map handler returns its Err
HandlerFails(req, result) ==
  \/ result = "other_error"
  \/ result = "state_error" /\ req = "PingMapUpdate"

\* the player registry's Connect{sender}: a sender already registered for
\* the player is handed Disconnect(MultiLogin) and replaced
RegistryConnect(p, c) ==
  /\ registry' = [registry EXCEPT ![p] = c]
  /\ queue' = IF registry[p] # None
                THEN [queue EXCEPT ![registry[p]] =
                        Append(@, DisconnectMsg("MultiLogin"))]
                ELSE queue

\* the player registry's Disconnect{player_id}: the sender handle is cleared
RegistryDisconnect(p) == registry' = [registry EXCEPT ![p] = None]

\* variant: no version check after the handshake
Handshake_NoVersionCheck(c, p, outcome, client_version) ==
  /\ conn[c].pc = "listening"
  /\ conn' =
       CASE outcome # "ok" ->
              [conn EXCEPT ![c].pc = "ended", ![c].hs = outcome]
         [] OTHER ->
              [conn EXCEPT ![c].pc = "accepted", ![c].player = p,
                           ![c].hs = IF client_version < MIN_FLO_VERSION
                                       THEN "too_old" ELSE "ok"]
  /\ UNCHANGED <<registry, queue, frameNo, lobbyVars, castVars, call>>

\* serve: the handshake of an accepted TCP connection (the first frame is
\* received, the token validated) and the version check
Handshake(c, p, outcome, client_version) ==
  /\ conn[c].pc = "listening"
  /\ conn' =
       CASE outcome # "ok" ->
              [conn EXCEPT ![c].pc = "ended", ![c].hs = outcome]
         [] outcome = "ok" /\ client_version < MIN_FLO_VERSION ->
              [conn EXCEPT ![c].pc = "ended", ![c].player = p,
                           ![c].hs = "too_old",
                           ![c].written =
                             Append(@, ClientConnectReject("ClientVersionTooOld"))]
         [] OTHER ->
              [conn EXCEPT ![c].pc = "accepted", ![c].player = p,
                           ![c].hs = "ok"]
  /\ UNCHANGED <<registry, queue, frameNo, lobbyVars, castVars, call>>

\* serve: PlayerSender::new(player_id) and state.players.send(Connect { sender })
Connect(c) ==
  /\ conn[c].pc = "accepted"
  /\ RegistryConnect(conn[c].player, c)
  /\ conn' = [d \in Conns |->
       IF d = c THEN [conn[d] EXCEPT !.pc = "initial", !.connects = @ + 1]
       ELSE IF d = registry[conn[c].player]
         THEN [conn[d] EXCEPT !.displaced = TRUE]
         ELSE conn[d]]
  /\ UNCHANGED <<frameNo, lobbyVars, castVars, call>>

\* handle_stream: send_initial_state(..).await?; ok: the database reads, the
\* node list and the write to the stream succeed
send_initial_state(c, ok, db) ==
  /\ conn[c].pc = "initial"
  /\ LET frames == InitialFrames(conn[c].player, db)
     IN conn' = IF ok /\ frames # <<>>
                  THEN [conn EXCEPT ![c].pc = "loop", ![c].db = db,
                                    ![c].written = @ \o frames]
                  ELSE [conn EXCEPT ![c].pc = "cleanup", ![c].db = db,
                                    ![c].exit = Exit("initial", "none")]
  /\ UNCHANGED <<registry, queue, frameNo, lobbyVars, castVars, call>>

\* select!: next_ping elapsed: a Ping is written and the timeout task spawned
PingTick(c, ok) ==
  /\ conn[c].pc = "loop"
  /\ conn[c].timer = "off"
  /\ conn[c].pings < MaxPings
  /\ conn' = IF ok
               THEN [conn EXCEPT ![c].elapsed = 0,
                                 ![c].written = Append(@, Frame("Ping", "none", None)),
                                 ![c].timer = "armed",
                                 ![c].abort = TRUE,
                                 ![c].heard = FALSE,
                                 ![c].pings = @ + 1]
               ELSE [conn EXCEPT ![c].elapsed = 0, ![c].pc = "cleanup",
                                 ![c].exit = Exit("ping_send", "none")]
  /\ UNCHANGED <<registry, queue, frameNo, lobbyVars, castVars, call>>

\* variant: the spawned task ends without notifying
TimeoutTask_NoNotify(c) ==
  /\ conn[c].timer = "armed"
  /\ conn' = [conn EXCEPT ![c].timer = "off"]
  /\ UNCHANGED <<registry, queue, frameNo, lobbyVars, castVars, call>>

\* the spawned task: delay_for(PING_TIMEOUT) has elapsed, notify.notify()
TimeoutTask(c) ==
  /\ conn[c].timer = "armed"
  /\ conn' = [conn EXCEPT ![c].timer = "off", ![c].notified = TRUE]
  /\ UNCHANGED <<registry, queue, frameNo, lobbyVars, castVars, call>>

\* variant: the heartbeat timeout returns from serve without the cleanup
HeartbeatTimeout_NoCleanup(c) ==
  /\ conn[c].pc = "loop"
  /\ conn[c].notified
  /\ conn' = [conn EXCEPT ![c].pc = "ended", ![c].notified = FALSE,
                          ![c].exit = Exit("heartbeat", "none")]
  /\ UNCHANGED <<registry, queue, frameNo, lobbyVars, castVars, call>>

\* select!: ping_timeout_notify.notified(): heartbeat timeout, break
HeartbeatTimeout(c) ==
  /\ conn[c].pc = "loop"
  /\ conn[c].notified
  /\ conn' = [conn EXCEPT ![c].elapsed = 0,
                          ![c].pc = "cleanup", ![c].notified = FALSE,
                          ![c].exit = Exit("heartbeat", "none")]
  /\ UNCHANGED <<registry, queue, frameNo, lobbyVars, castVars, call>>

\* variant: a written packet stays at the head of the queue and the next
\* one is dropped in its place
RecvMessage_DropsSecond(c, ok) ==
  /\ conn[c].pc = "loop"
  /\ queue[c] # <<>>
  /\ queue' = [queue EXCEPT ![c] =
                 IF Len(@) >= 2 THEN <<Head(@)>> \o Tail(Tail(@)) ELSE Tail(@)]
  /\ LET msg == Head(queue[c])
     IN conn' =
          IF msg.kind = "Frame"
            THEN IF ok
                   THEN [conn EXCEPT ![c].written =
                           Append(@, Frame("Frame", "none", msg.seq))]
                   ELSE [conn EXCEPT ![c].pc = "cleanup",
                                     ![c].exit = Exit("send_error", "none")]
            ELSE [conn EXCEPT ![c].pc = "cleanup",
                              ![c].exit = Exit("disconnect", "none")]
  /\ UNCHANGED <<registry, frameNo, lobbyVars, castVars, call>>

\* variant: the handler keeps looping after it has written ClientDisconnect
RecvMessage_StayAfterDisconnect(c, ok) ==
  /\ conn[c].pc = "loop"
  /\ queue[c] # <<>>
  /\ queue' = [queue EXCEPT ![c] = Tail(@)]
  /\ LET msg == Head(queue[c])
     IN conn' =
          IF ok
            THEN [conn EXCEPT ![c].written =
                    Append(@, Frame(IF msg.kind = "Frame" THEN "Frame"
                                    ELSE "ClientDisconnect", msg.reason, msg.seq))]
            ELSE [conn EXCEPT ![c].pc = "cleanup",
                              ![c].exit = Exit("send_error", "none")]
  /\ UNCHANGED <<registry, frameNo, lobbyVars, castVars, call>>

\* select!: receiver.recv() gave a message; ok: the write to the stream
\* succeeded
RecvMessage(c, ok) ==
  /\ conn[c].pc = "loop"
  /\ queue[c] # <<>>
  /\ queue' = [queue EXCEPT ![c] = Tail(@)]
  /\ LET msg == Head(queue[c])
     IN conn' =
          IF msg.kind = "Frame"
            THEN IF ok
                   THEN [conn EXCEPT ![c].elapsed = 0, ![c].written =
                           Append(@, Frame("Frame", "none", msg.seq))]
                   ELSE [conn EXCEPT ![c].elapsed = 0, ![c].pc = "cleanup",
                                     ![c].exit = Exit("send_error", "none")]
            ELSE IF ok
                   THEN [conn EXCEPT ![c].elapsed = 0, ![c].written =
                           Append(@, Frame("ClientDisconnect", msg.reason, None)),
                                     ![c].pc = "cleanup",
                                     ![c].exit = Exit("disconnect", "none")]
                   ELSE [conn EXCEPT ![c].elapsed = 0, ![c].pc = "cleanup",
                                     ![c].exit = Exit("disconnect", "none")]
  /\ UNCHANGED <<registry, frameNo, lobbyVars, castVars, call>>

\* select!: receiver.recv() gave None: the sender was dropped, break
SenderDropped(c) ==
  /\ conn[c].pc = "loop"
  /\ queue[c] = <<>>
  /\ registry[conn[c].player] # c
  /\ conn' = [conn EXCEPT ![c].pc = "cleanup",
                          ![c].exit = Exit("dropped", "none")]
  /\ UNCHANGED <<registry, queue, frameNo, lobbyVars, castVars, call>>

\* select!: stream.recv_frame(): the pending timeout is aborted, then the
\* frame is read (received = FALSE: incoming? returns the stream's error)
\* and dispatched to the handler of its request
Inbound(c, received, req, result) ==
  /\ conn[c].pc = "loop"
  /\ result \in HandlerResults(req)
  /\ conn' = [conn EXCEPT
       ![c].elapsed = 0,
       ![c].abort = FALSE,
       ![c].timer = IF conn[c].abort THEN "off" ELSE @,
       ![c].heard = IF received /\ ~HandlerFails(req, result) /\ conn[c].pings > 0
                      THEN TRUE ELSE @,
       ![c].pc = IF received /\ ~HandlerFails(req, result) THEN @ ELSE "cleanup",
       ![c].exit = IF ~received THEN Exit("recv_error", "none")
                   ELSE IF HandlerFails(req, result) THEN Exit("handler", result)
                   ELSE @]
  /\ UNCHANGED <<registry, queue, frameNo, lobbyVars, castVars, call>>

\* serve: after handle_stream, state.players.send(Disconnect { player_id })
Cleanup(c) ==
  /\ conn[c].pc = "cleanup"
  /\ RegistryDisconnect(conn[c].player)
  /\ conn' = [conn EXCEPT ![c].pc = "ended", ![c].disconnects = @ + 1]
  /\ UNCHANGED <<queue, frameNo, lobbyVars, castVars, call>>

\* a packet is handed to the sender registered for player p
SendPacket(p) ==
  /\ registry[p] # None
  /\ frameNo < MaxFrames
  /\ frameNo' = frameNo + 1
  /\ queue' = [queue EXCEPT ![registry[p]] = Append(@, FrameMsg(frameNo + 1))]
  /\ UNCHANGED <<conn, registry, lobbyVars, castVars, call>>

\* the steps of the connections C that log in players of P and find one of
\* the rows Dbs in the database
StreamNext(C, P, Dbs) ==
  \/ \E c \in C, p \in P,
        outcome \in {"recv_error", "invalid_token", "ok"},
        client_version \in ClientVersions :
       Handshake(c, p, outcome, client_version)
  \/ \E c \in C : Connect(c)
  \/ \E c \in C, ok \in BOOLEAN, db \in Dbs :
       send_initial_state(c, ok, db)
  \/ \E c \in C, ok \in BOOLEAN : PingTick(c, ok)
  \/ \E c \in C : TimeoutTask(c)
  \/ \E c \in C : HeartbeatTimeout(c)
  \/ \E c \in C, ok \in BOOLEAN : RecvMessage(c, ok)
  \/ \E c \in C, received \in BOOLEAN, req \in Requests,
        result \in {"ok", "state_error", "other_error"} :
       Inbound(c, received, req, result)
  \/ \E c \in C : Cleanup(c)
  \/ \E p \in P : SendPacket(p)

\* every connection logs in the same player, who is in no game
ConnNext ==
  \/ StreamNext(Conns, {NumConnPlayers}, {NoActiveSlot})
  \/ \E c \in Conns : SenderDropped(c)

\* The connections of the controller: several logins of one player
SpecConn == Init /\ [][ConnNext]_vars

\* One connection, of any player and with any database row
SpecStream ==
  Init /\ [][StreamNext({NumConns}, ConnPlayers, ActiveSlots)]_vars

\* ------------------------------------------------------- the ping timer
\* time passes while the loop waits in select!: the next_ping delay created
\* at the top of this iteration has run one more part of PING_INTERVAL
Tick(c) ==
  /\ conn[c].pc = "loop"
  /\ conn[c].elapsed < PingTicks
  /\ conn' = [conn EXCEPT ![c].elapsed = @ + 1]
  /\ UNCHANGED <<registry, queue, frameNo, lobbyVars, castVars, call>>

\* select!: the branch of next_ping is taken once the delay has elapsed
PingDue(c, ok) ==
  /\ conn[c].elapsed = PingTicks
  /\ PingTick(c, ok)

\* one connection's steps with the time of its ping timer
HeartbeatNext ==
  \/ \E p \in {NumConnPlayers}, outcome \in {"recv_error", "invalid_token", "ok"},
        client_version \in ClientVersions :
       Handshake(NumConns, p, outcome, client_version)
  \/ Connect(NumConns)
  \/ \E ok \in BOOLEAN : send_initial_state(NumConns, ok, NoActiveSlot)
  \/ Tick(NumConns)
  \/ \E ok \in BOOLEAN : PingDue(NumConns, ok)
  \/ TimeoutTask(NumConns)
  \/ HeartbeatTimeout(NumConns)
  \/ \E ok \in BOOLEAN : RecvMessage(NumConns, ok)
  \/ \E received \in BOOLEAN, req \in Requests,
        result \in {"ok", "state_error", "other_error"} :
       Inbound(NumConns, received, req, result)
  \/ Cleanup(NumConns)
  \/ \E p \in {NumConnPlayers} : SendPacket(p)

\* time passes, and a select! branch that stays ready is taken
SpecHeartbeat ==
  /\ Init /\ [][HeartbeatNext]_vars
  /\ WF_vars(Tick(NumConns))
  /\ WF_vars(\E ok \in BOOLEAN : PingDue(NumConns, ok))
  /\ WF_vars(TimeoutTask(NumConns))
  /\ WF_vars(HeartbeatTimeout(NumConns))

\* the runtime runs the spawned timeout task once its delay has elapsed, and
\* select! takes a stored notification while the loop runs
StreamFairness ==
  /\ WF_vars(TimeoutTask(NumConns))
  /\ WF_vars(HeartbeatTimeout(NumConns))

SpecStreamFair == SpecStream /\ StreamFairness

\* ------------------------------------------------------ broadcast plane
\* the broadcasts that have reached at least one recipient
Delivered ==
  UNION {{inbox[r][i].no : i \in 1 .. Len(inbox[r])} : r \in Players}

\* get_broadcaster(&players).broadcast(packet), called by task t after the
\* game lock is dropped: the broadcast is numbered in the order of the calls
\* and remembers which broadcasts had reached a recipient before it
BroadcastIssue(t, sent) ==
  IF sent = {}
    THEN UNCHANGED castVars
    ELSE /\ castNo' = castNo + 1
         /\ casts' = [casts EXCEPT ![t] =
              [no |-> castNo + 1, todo |-> {pkt.to : pkt \in sent},
               after |-> Delivered]]
         /\ UNCHANGED inbox

\* update_game_slot_settings called by task t, up to the call of broadcast
update_game_slot_settings_cast(t, g, p, settings) ==
  /\ casts[t].todo = {}
  /\ castNo < MaxCasts
  /\ update_game_slot_settings_call(g, p, settings)
  /\ BroadcastIssue(t, last'.sent)
  /\ UNCHANGED <<connVars, call>>

\* select_game_node called by task t, up to the call of broadcast
select_game_node_cast(t, g, p, node_id) ==
  /\ casts[t].todo = {}
  /\ castNo < MaxCasts
  /\ select_game_node_call(g, p, node_id)
  /\ BroadcastIssue(t, last'.sent)
  /\ UNCHANGED <<connVars, call>>

\* the broadcaster pushes the packet onto one recipient's outbound queue;
\* a broadcast is not atomic across its recipients
BroadcastPush(t, r) ==
  /\ r \in casts[t].todo
  /\ inbox' = [inbox EXCEPT ![r] =
       Append(@, [no |-> casts[t].no, after |-> casts[t].after])]
  /\ casts' = [casts EXCEPT ![t].todo = @ \ {r}]
  /\ UNCHANGED <<castNo, lobbyVars, connVars, call>>

BroadcastNext ==
  \/ \E t \in Tasks, g \in Games, p \in Players, x \in Settings :
       update_game_slot_settings_cast(t, g, p, x)
  \/ \E t \in Tasks, g \in Games, p \in Players, n \in Nodes \cup {None} :
       select_game_node_cast(t, g, p, n)
  \/ \E t \in Tasks, r \in Players : BroadcastPush(t, r)

\* Slot updates and node selections called from concurrent tasks, with
\* join_game / leave_game calls one at a time
SpecBroadcast == Init /\ [][LobbyNext({1}, Joiners) \/ BroadcastNext]_vars

\* ------------------------------------------------------ w3gs chat codec
\* the values of a u8
U8 == 0 .. 255

\* BufMut::put_u32_le / Buf::get_u32_le: four bytes, least significant first
put_u32_le(n) ==
  <<n % 256, (n \div 256) % 256, (n \div 65536) % 256, (n \div 16777216) % 256>>

get_u32_le(b) == b[1] + 256 * b[2] + 65536 * b[3] + 16777216 * b[4]

\* enum MessageScope: All, Allies, Observers and Player(v)
Scope(kind) == [kind |-> kind]
ScopePlayer(v) == [kind |-> "Player", v |-> v]

\* the Err results of a decode: BinDecodeError
DecodeErr(what) == [ok |-> FALSE, err |-> what]

\* impl BinEncode for MessageScope; v as u32 cannot overflow 0x02 + v
MessageScope_encode(scope) ==
  put_u32_le(CASE scope.kind = "All" -> 0
               [] scope.kind = "Allies" -> 1
               [] scope.kind = "Observers" -> 2
               [] scope.kind = "Player" -> 2 + scope.v)

\* impl BinDecode for MessageScope; (u8::MAX - 0x03) is 252
MessageScope_decode(buf) ==
  LET n == get_u32_le(buf)
  IN CASE n = 0 -> Scope("All")
       [] n = 1 -> Scope("Allies")
       [] n = 2 -> Scope("Observers")
       [] n > 2 /\ n <= 255 - 3 -> ScopePlayer((n - 3) % 256)
       [] OTHER -> DecodeErr("invalid chat message scope value")

\* a chat scope about to be sent: not yet encoded
ScopeCall(scope, from) ==
  [op |-> "scope", stage |-> "built", from |-> from, scope |-> scope,
   bytes |-> <<>>, decoded |-> DecodeErr("none")]

\* ChatFromHost::private_to_self(player_id, ..): a Scoped message whose
\* scope is Player(player_id)
private_to_self(player_id) ==
  /\ call = [op |-> "private_to_self", player_id |-> player_id]
  /\ call' = ScopeCall(ScopePlayer(player_id), "private_to_self")
  /\ UNCHANGED <<lobbyVars, connVars, castVars>>

\* the sender encodes the scope of a Scoped chat message
ScopeEncode ==
  /\ call.op = "scope"
  /\ call.stage = "built"
  /\ call' = [call EXCEPT !.stage = "encoded",
                          !.bytes = MessageScope_encode(call.scope)]
  /\ UNCHANGED <<lobbyVars, connVars, castVars>>

\* the receiver decodes the bytes
ScopeDecode ==
  /\ call.op = "scope"
  /\ call.stage = "encoded"
  /\ call' = [call EXCEPT !.stage = "decoded",
                          !.decoded = MessageScope_decode(call.bytes)]
  /\ UNCHANGED <<lobbyVars, connVars, castVars>>

\* every scope, and every private_to_self call, is a possible input
InitScope ==
  /\ InitServers
  /\ call \in {ScopeCall(Scope(k), "in_game") : k \in {"All", "Allies", "Observers"}}
        \cup {ScopeCall(ScopePlayer(v), "in_game") : v \in U8}
        \cup {[op |-> "private_to_self", player_id |-> v] : v \in U8}

ScopeNext ==
  \/ \E v \in U8 : private_to_self(v)
  \/ ScopeEncode
  \/ ScopeDecode

SpecScope == InitScope /\ [][ScopeNext]_vars

\* -------------------------------------------------- w3gs GameSettings codec
\* BufMut::put_u16_le / Buf::get_u16_le
put_u16_le(n) == <<n % 256, (n \div 256) % 256>>

get_u16_le(b) == b[1] + 256 * b[2]

\* the part of a buffer from position i on
Rest(buf, i) == SubSeq(buf, i, Len(buf))

\* flo_util::stat_string::encode: every group of up to seven bytes is
\* preceded by a mask byte with bit 0 set; an even byte is stored plus one,
\* an odd byte as it is with its bit set in the mask, so no byte is zero
RECURSIVE MaskBits(_, _)
MaskBits(group, k) ==
  IF k > Len(group) THEN 0
  ELSE (IF group[k] % 2 = 1 THEN 2 ^ k ELSE 0) + MaskBits(group, k + 1)

RECURSIVE stat_string_encode(_)
stat_string_encode(data) ==
  IF data = <<>> THEN <<>>
  ELSE LET n == IF Len(data) < 7 THEN Len(data) ELSE 7
           group == SubSeq(data, 1, n)
           body == [k \in 1 .. n |->
                      IF group[k] % 2 = 1 THEN group[k] ELSE group[k] + 1]
       IN <<1 + MaskBits(group, 1)>> \o body
            \o stat_string_encode(Rest(data, n + 1))

\* flo_util::stat_string::decode
RECURSIVE stat_string_decode(_)
stat_string_decode(bytes) ==
  IF Len(bytes) < 2 THEN <<>>
  ELSE LET n == IF Len(bytes) < 8 THEN Len(bytes) - 1 ELSE 7
           mask == bytes[1]
           body == [k \in 1 .. n |->
                      IF (mask \div (2 ^ k)) % 2 = 1 THEN bytes[k + 1]
                      ELSE bytes[k + 1] - 1]
       IN body \o stat_string_decode(Rest(bytes, n + 2))

\* flo_util::stat_string::encoded_len: one mask byte per group of seven
stat_string_encoded_len(len) == len + (len + 6) \div 7

\* CString::decode: the bytes before the first NUL, and the buffer after it;
\* an Err if the buffer has no NUL
CString_decode(buf) ==
  LET i == IF \E k \in 1 .. Len(buf) : buf[k] = 0
             THEN CHOOSE k \in 1 .. Len(buf) :
                    buf[k] = 0 /\ \A j \in 1 .. k - 1 : buf[j] # 0
             ELSE 0
  IN IF i = 0 THEN [ok |-> FALSE, bytes |-> <<>>, rest |-> <<>>]
     ELSE [ok |-> TRUE, bytes |-> SubSeq(buf, 1, i - 1), rest |-> Rest(buf, i + 1)]

\* GameSettings::get_encode_size
get_encode_size(s) ==
  4 + 1 + 2 + 2 + 4 + (Len(s.map_path) + 1) + (Len(s.host_name) + 1) + 1 + 20

\* the buffer GameSettings::encode hands to stat_string::encode
StatStringBuf(s) ==
  put_u32_le(s.game_setting_flags) \o <<s.unk_1>> \o put_u16_le(s.map_width)
    \o put_u16_le(s.map_height) \o put_u32_le(s.map_checksum)
    \o s.map_path \o <<0>> \o s.host_name \o <<0>> \o <<0>> \o s.map_sha1

\* impl BinEncode for GameSettings
GameSettings_encode(s) == stat_string_encode(StatStringBuf(s)) \o <<0>>

\* the length decode requires of the raw buffer: the paths "x.w3m" and "h"
DecodeMinLen == 4 + 1 + 2 + 2 + 4 + (5 + 1) + (1 + 1) + 1 + 20

\* impl BinDecode for GameSettings, on the bytes that remain in buf; the
\* flags are bits of GameSettingFlags, which from_bits accepts
GameSettings_decode(buf) ==
  IF Len(buf) < stat_string_encoded_len(DecodeMinLen) THEN DecodeErr("incomplete")
  ELSE LET cstr == CString_decode(buf)
           data == stat_string_decode(cstr.bytes)
           map_path == CString_decode(Rest(data, 14))
           host_name == CString_decode(map_path.rest)
           tail == host_name.rest
       IN IF ~cstr.ok THEN DecodeErr("no nul")
          ELSE IF ~map_path.ok \/ ~host_name.ok THEN DecodeErr("no nul")
          ELSE IF Len(tail) # 1 + 20 THEN DecodeErr("incomplete")
          ELSE IF tail[1] # 0 THEN DecodeErr("zero byte expected")
          ELSE [ok |-> TRUE,
                value |-> [game_setting_flags |-> get_u32_le(SubSeq(data, 1, 4)),
                           unk_1 |-> data[5],
                           map_width |-> get_u16_le(SubSeq(data, 6, 7)),
                           map_height |-> get_u16_le(SubSeq(data, 8, 9)),
                           map_checksum |-> get_u32_le(SubSeq(data, 10, 13)),
                           map_path |-> map_path.bytes,
                           host_name |-> host_name.bytes,
                           map_sha1 |-> Rest(tail, 2)],
                rest |-> cstr.rest]

\* the settings the codec is applied to: small and large field values (the
\* u32 values have a top byte below 128), empty, one-byte and longer
\* map_path and host_name
GameSettingsValues ==
  [game_setting_flags : {0, 3 + 256 * 128},
   unk_1 : {0},
   map_width : {0, 2 + 256 * 1},
   map_height : {0, 255 + 256 * 255},
   map_checksum : {0, 239 + 256 * (190 + 256 * (173 + 256 * 94))},
   map_path : {<<>>, <<120>>, <<120, 46, 119, 51, 109>>},
   host_name : {<<>>, <<104>>, <<70, 76, 79>>},
   map_sha1 : {[i \in 1 .. 20 |-> 0], [i \in 1 .. 20 |-> 12 * i + 1 + (i % 2)]}]

\* the sender encodes the settings; the packet's later fields follow
SettingsEncode ==
  /\ call.op = "settings"
  /\ call.stage = "built"
  /\ call' = [call EXCEPT !.stage = "encoded",
                          !.raw = StatStringBuf(call.settings),
                          !.bytes = GameSettings_encode(call.settings)]
  /\ UNCHANGED <<lobbyVars, connVars, castVars>>

\* the receiver decodes the settings from the buffer
SettingsDecode ==
  /\ call.op = "settings"
  /\ call.stage = "encoded"
  /\ call' = [call EXCEPT !.stage = "decoded",
                          !.decoded = GameSettings_decode(call.bytes \o call.after)]
  /\ UNCHANGED <<lobbyVars, connVars, castVars>>

\* settings about to be encoded into a packet that ends with them, or that
\* has eight more bytes after them
InitSettings ==
  /\ InitServers
  /\ call \in {[op |-> "settings", stage |-> "built", settings |-> s,
                 after |-> after, raw |-> <<>>, bytes |-> <<>>,
                 decoded |-> DecodeErr("none")] :
                  s \in GameSettingsValues,
                  after \in {<<>>, <<12, 0, 0, 0, 9, 0, 0, 0>>}}

SettingsNext == SettingsEncode \/ SettingsDecode

SpecSettings == InitSettings /\ [][SettingsNext]_vars

\* ------------------------------------------------ membership broadcasts
\* join_game's get_broadcaster(&players).broadcast(PacketGamePlayerEnter),
\* called after both guards are dropped: the broadcast carries the number
\* of the membership change it reports
MemberIssue(t, pkts) ==
  IF pkts = {}
    THEN UNCHANGED castVars
    ELSE /\ castNo' = castNo + 1
         /\ casts' = [casts EXCEPT ![t] =
              [no |-> castNo + 1, todo |-> {x.to : x \in pkts},
               after |-> Delivered,
               type |-> (CHOOSE x \in pkts : TRUE).type,
               player |-> (CHOOSE x \in pkts : TRUE).player]]
         /\ UNCHANGED inbox

\* a task calls join_game once its previous call has returned
MemberJoinCall(t, p, g) ==
  /\ casts[t].todo = {}
  /\ JoinLockPlayer(t, p, g)

\* join_game from lock_game_state up to the call of broadcast
JoinGameCast(t) ==
  /\ castNo < MaxCasts
  /\ JoinLockGame_call(t)
  /\ MemberIssue(t, {x \in last'.sent : x.type = "GamePlayerEnter"})
  /\ UNCHANGED <<connVars, call>>

\* a task calls leave_game once its previous call has returned
MemberLeaveCall(t, p, g) ==
  /\ casts[t].todo = {}
  /\ LeaveLockPlayer(t, p, g)

\* leave_game from lock_game_state on: the PacketGamePlayerLeave broadcast
\* is awaited before the guards are dropped, so it has reached the queues
\* of its recipients when the step ends
LeaveGameCast(t) ==
  /\ castNo < MaxCasts
  /\ LeaveLockGame_call(t)
  /\ LET pkts == IF task'[t].pc = "idle"
                   THEN {x \in last'.sent : x.type = "GamePlayerLeave"}
                   ELSE {}
     IN IF pkts = {}
          THEN UNCHANGED castVars
          ELSE /\ castNo' = castNo + 1
               /\ inbox' = [r \in Players |->
                    IF r \in {x.to : x \in pkts}
                      THEN Append(inbox[r],
                             [no |-> castNo + 1, after |-> Delivered,
                              type |-> "GamePlayerLeave",
                              player |-> (CHOOSE x \in pkts : TRUE).player])
                      ELSE inbox[r]]
               /\ UNCHANGED casts
  /\ UNCHANGED <<connVars, call>>

\* the broadcaster pushes a membership packet onto one recipient's queue
MemberPush(t, r) ==
  /\ r \in casts[t].todo
  /\ inbox' = [inbox EXCEPT ![r] =
       Append(@, [no |-> casts[t].no, after |-> casts[t].after,
                  type |-> casts[t].type, player |-> casts[t].player])]
  /\ casts' = [casts EXCEPT ![t].todo = @ \ {r}]
  /\ UNCHANGED <<castNo, lobbyVars, connVars, call>>

MembershipNext ==
  \/ \E t \in Tasks, p \in Players, g \in Games : MemberJoinCall(t, p, g)
  \/ \E t \in Tasks : JoinGameCast(t)
  \/ \E t \in Tasks, p \in Players, g \in Games : MemberLeaveCall(t, p, g)
  \/ \E t \in Tasks : LeaveGameCast(t)
  \/ \E t \in Tasks : LeaveEvict(t)
  \/ \E t \in Tasks : LeaveClose(t)
  \/ \E t \in Tasks, r \in Players : MemberPush(t, r)

\* Concurrent join_game / leave_game calls and their membership broadcasts
SpecMembership == Init /\ [][MembershipNext]_vars

\* --------------------------------------------------- ping map snapshot
\* the nodes of the players' ping books
PingNodes == 1 .. NumPingNodes

\* GetPlayersPingSnapshot's reply: player id -> that player's ping book, a
\* map node id -> ping over any set of nodes
SnapshotMaps ==
  LET NodeBooks == UNION {[N -> 1 .. NumPings] : N \in SUBSET PingNodes}
  IN UNION {[P -> NodeBooks] : P \in SUBSET ConnPlayers}

\* PingStats::pack: the packet's message for the same statistics
pack(ping) == [packed |-> ping]

\* (mutant) the ping is filed under the player id in the outer map
SnapshotInsert_Swapped(node_ping_map, player_id, node_id, ping) ==
  LET item == IF player_id \in DOMAIN node_ping_map
                THEN node_ping_map[player_id] ELSE <<>>
  IN [n \in DOMAIN node_ping_map \cup {player_id} |->
        IF n = player_id
          THEN [p \in DOMAIN item \cup {node_id} |->
                  IF p = node_id THEN pack(ping) ELSE item[p]]
          ELSE node_ping_map[n]]

\* node_ping_map.entry(node_id).or_insert_with(Default::default)
\*   .player_ping_map.insert(player_id, ping.pack()?)
SnapshotInsert(node_ping_map, player_id, node_id, ping) ==
  LET item == IF node_id \in DOMAIN node_ping_map
                THEN node_ping_map[node_id] ELSE <<>>
  IN [n \in DOMAIN node_ping_map \cup {node_id} |->
        IF n = node_id
          THEN [p \in DOMAIN item \cup {player_id} |->
                  IF p = player_id THEN pack(ping) ELSE item[p]]
          ELSE node_ping_map[n]]

\* a PacketGamePlayerPingMapSnapshotRequest of player_id has arrived and the
\* two actors have replied; todo holds the (player, node) entries of the
\* snapshot that the loops have yet to visit
SnapshotCall(player_id, map) ==
  [op |-> "ping_snapshot", stage |-> "loop", player_id |-> player_id,
   game_id |-> NumGames, map |-> map,
   todo |-> UNION {{<<p, n>> : n \in DOMAIN map[p]} : p \in DOMAIN map},
   node_ping_map |-> <<>>, sent |-> {}]

\* one turn of the loops over snapshot.map and node_map, in any order
SnapshotLoop(p, n) ==
  /\ call.op = "ping_snapshot"
  /\ call.stage = "loop"
  /\ <<p, n>> \in call.todo
  /\ call' = [call EXCEPT
       !.todo = @ \ {<<p, n>>},
       !.node_ping_map = SnapshotInsert(@, p, n, call.map[p][n])]
  /\ UNCHANGED <<lobbyVars, connVars, castVars>>

\* state.player_packet_sender.send(player_id, PacketGamePlayerPingMapSnapshot)
SnapshotSend(ok) ==
  /\ call.op = "ping_snapshot"
  /\ call.stage = "loop"
  /\ call.todo = {}
  /\ call' = IF ok
       THEN [call EXCEPT !.stage = "sent",
               !.sent = {[to |-> call.player_id, game_id |-> call.game_id,
                          node_ping_map |-> call.node_ping_map]}]
       ELSE [call EXCEPT !.stage = "failed"]
  /\ UNCHANGED <<lobbyVars, connVars, castVars>>

InitSnapshot ==
  /\ InitServers
  /\ call \in {SnapshotCall(p, map) : p \in ConnPlayers, map \in SnapshotMaps}

SnapshotNext ==
  \/ \E p \in ConnPlayers, n \in PingNodes : SnapshotLoop(p, n)
  \/ \E ok \in BOOLEAN : SnapshotSend(ok)

SpecSnapshot == InitSnapshot /\ [][SnapshotNext]_vars

\* ================================================================ claims

\* every join_game / leave_game call has returned
Quiescent == \A t \in Tasks : task[t].pc = "idle"

\* C1: once every join_game / leave_game call has returned, a player's
\* joined_game_id is Some(g) exactly when g's in-memory player list
\* contains the player, also after a leave that ended the game and evicted
\* the other players.
C1_JoinedIffMember ==
  Quiescent =>
    \A p \in Players, g \in Games : (joined[p] = g) <=> (p \in players[g])

\* the task is at lock_player_state(removed_player_id).await in the loop
\* over removed_players
AwaitsPlayerLock(t) ==
  /\ task[t].pc = "leave_evict"
  /\ task[t].todo # <<>>
  /\ Head(task[t].todo) # task[t].p

\* C2: no task requests a player-state lock while it holds a game-state
\* lock.
C2_PlayerLockBeforeGameLock ==
  \A t \in Tasks : AwaitsPlayerLock(t) => \A g \in Games : gameLock[g] # t

\* the call the claim is about applies to the player: join_game by a player
\* in no game, leave_game by a player of g, a slot update by a member of g
C3_Applies(op, p, g) ==
  \/ op = "join_game" /\ joined[p] = None
  \/ op = "leave_game" /\ joined[p] = g
  \/ op = "update_game_slot_settings" /\ p \in players[g]

\* C3: while a game is Starting or Created, join_game, leave_game and
\* update_game_slot_settings return GameBusy, and neither the member list
\* nor any slot settings of the game change.
C3_LockedRefusesMutation ==
  [][\A g \in Games :
       player_slots_locked(g) =>
         /\ players'[g] = players[g]
         /\ dbSlots'[g] = dbSlots[g]
         /\ \A p \in dbSlots[g] : dbSettings'[p] = dbSettings[p]
         /\ (last' # last /\ last'.game = g
             /\ C3_Applies(last'.op, last'.player, g))
              => last'.res = "GameBusy"]_vars

\* the step is one of the four transitions out of Starting
C4_Transition(g) ==
  \/ /\ last'.op = "start_game_proceed"
     /\ last'.nodeCall = "Ok"
     /\ status'[g] = "Created"
  \/ /\ last'.op = "start_game_proceed"
     /\ last'.nodeCall = "none"
     /\ \E pkt \in last'.sent : pkt.message = VersionCheckFailed
     /\ status'[g] = "Preparing"
  \/ /\ last'.op = "start_game_set_timeout"
     /\ status'[g] = "Preparing"
  \/ /\ last'.op = "start_game_proceed"
     /\ last'.nodeCall \in NodeErrors
     /\ status'[g] = "Preparing"

\* C4: a Starting game leaves Starting only by acks agreeing and the node
\* creating the game (Created), acks disagreeing, the start timeout, or a
\* node create error (Preparing); and every Starting game eventually leaves
\* Starting.
C4_StartingLeftByFourTransitions ==
  /\ [][\A g \in Games :
          (status[g] = "Starting" /\ status'[g] # "Starting") =>
            (last'.game = g /\ C4_Transition(g))]_vars
  /\ \A g \in Games : (status[g] = "Starting") ~> (status[g] # "Starting")

StartOps ==
  {"start_game", "start_game_proceed", "start_game_set_timeout",
   "start_game_abort"}

\* C5: a start message handled for a game that is Created or Ended leaves
\* its status alone and broadcasts neither GameStarting nor GameStartReject.
C5_CreatedEndedAbsorbing ==
  (last.op \in StartOps /\ last.pre \in {"Created", "Ended"}) =>
    /\ status[last.game] = last.pre
    /\ \A pkt \in last.sent : pkt.type \notin {"GameStarting", "GameStartReject"}

\* C6: after the node's create_game failed, the game is Preparing again.
C6_NodeErrorResets ==
  (last.op = "start_game_proceed" /\ last.nodeCall \in NodeErrors) =>
    status[last.game] = "Preparing"

\* the GameStartReject the host is owed for a failed create_game
C7_Message(err) ==
  IF err = "GameCreateTimeout" THEN "Create game timeout."
  ELSE IF err = "Reject:Unknown" THEN "Create game request rejected."
  ELSE IF err = "Reject:GameExists" THEN "Game already started."
  ELSE IF err = "Reject:PlayerBusy"
    THEN "Create game request rejected: Player busy."
  ELSE IF err = "Reject:Maintenance"
    THEN "Create game request rejected: Server Maintenance."
  ELSE "Internal error."
C7_HostReject(g, err) ==
  [to |-> HostOf(g), via |-> "sender", type |-> "GameStartReject",
   game |-> g, player |-> None, arg |-> <<None, None>>,
   message |-> C7_Message(err), map |-> EmptyInfoMap]

\* C7 as claimed: after a failed create_game exactly one GameStartReject is
\* sent, to the host only, with the message of the error kind and an empty
\* player_client_info_map.
C7_ExactlyOneRejectToHost ==
  last.nodeCall \in NodeErrors =>
    last.sent = {C7_HostReject(last.game, last.nodeCall)}

\* C7 as amended: after a failed create_game that GameStartReject is sent to
\* the host when the host player has a sender, and nothing is sent when the
\* host has none; no other player is sent anything.
C7_RejectToHostIfConnected ==
  last.nodeCall \in NodeErrors =>
    last.sent = IF HostOf(last.game) \in last.online
                  THEN {C7_HostReject(last.game, last.nodeCall)}
                  ELSE {}

\* a failed create_game for a game with peers, answered to the host
C7_Witness ==
  /\ last.nodeCall \in NodeErrors
  /\ last.sent # {}
  /\ Cardinality(players[last.game]) >= 2

\* C8: a Created game has a selected node and a player token for every
\* player in its slots.
C8_CreatedHasNodeAndTokens ==
  \A g \in Games :
    status[g] = "Created" =>
      /\ node[g] # None
      /\ \A p \in dbSlots[g] : dbTokens[g][p] # None

\* C9: after a successful create_game every player of the game is sent one
\* GamePlayerToken with the game id, the selected node and the token issued
\* for that player, the tokens are persisted and the game is Created.
C9_EachPlayerGetsOwnToken ==
  last.nodeCall = "Ok" =>
    LET g == last.game
    IN /\ last.sent =
            {[to |-> q, via |-> "broadcast", type |-> "GamePlayerToken",
              game |-> g, player |-> None, arg |-> <<node[g], Token(q)>>,
              message |-> "", map |-> EmptyInfoMap] : q \in players[g]}
       /\ \A q \in players[g] : dbTokens[g][q] = Token(q)
       /\ status[g] = "Created"

\* all collected acks carry the same war3_version and the same map_sha1
C10_Agree(m) == \A p, q \in Keys(m) : m[p] = m[q]

\* the GameStartReject of a failed version check, for every player of g
C10_Rejects(g, m) ==
  {[to |-> q, via |-> "broadcast", type |-> "GameStartReject", game |-> g,
    player |-> None, arg |-> <<None, None>>, message |-> VersionCheckFailed,
    map |-> m] : q \in players[g]}

\* what start_game_proceed does when the acks disagree
C10_OnDisagreement ==
  /\ status[last.game] = "Preparing"
  /\ last.sent = C10_Rejects(last.game, last.map)
  /\ last.nodeCall = "none"

\* start_game_proceed returned in this step, for a game it found
C10_Proceeded ==
  /\ last' # last
  /\ last'.op = "start_game_proceed"
  /\ last'.res # "GameNotFound"

\* the outcome C10 claims for the proceed that has just returned
C10_ClaimedOutcome ==
  IF C10_Agree(last.map) THEN last.nodeCall # "none"
  ELSE C10_OnDisagreement

\* the outcome of the proceed that has just returned, with the early
\* returns of create_node_game
C10_AmendedOutcome ==
  IF C10_Agree(last.map)
    THEN /\ \A pkt \in last.sent : pkt.message # VersionCheckFailed
         /\ last.nodeCall = "none" =>
              /\ last.res \in {"DbError", "GameNodeNotSelected", "NodeConnError"}
              /\ last.sent = {}
              /\ status[last.game] = last.pre
    ELSE C10_OnDisagreement

\* C10 as claimed: the consensus check passes exactly when all acks agree;
\* on disagreement the game is Preparing, the reject with the full map goes
\* to all players and create_game is not called; on agreement create_game
\* is called.
C10_ConsensusThenCreate ==
  [][C10_Proceeded => C10_ClaimedOutcome']_vars

\* C10 as amended: on agreement create_node_game runs, and calls create_game
\* unless reading the game fails, no node is selected or the node has no
\* connection; it then returns that error, sends nothing and leaves the
\* status as it was.
C10_ConsensusThenCreateNodeGame ==
  [][C10_Proceeded => C10_AmendedOutcome']_vars

\* acks of several players that disagree were handled
C10_Witness ==
  /\ last.op = "start_game_proceed"
  /\ ~C10_Agree(last.map)
  /\ Cardinality(Keys(last.map)) >= 2
  /\ last.sent # {}

TimeoutMessage == "Some of the players didn't response in time."

\* start_game_set_timeout found the game and returned in this step
C11_TimeoutHandled(g) ==
  /\ last' # last
  /\ last'.op = "start_game_set_timeout"
  /\ last'.game = g
  /\ last'.res = "Ok"

\* C11: the timeout event is raised only with acks missing at the
\* deadline, and whenever it is handled it takes effect as claimed: the
\* game was Starting and is Preparing afterwards, and a GameStartReject
\* with the timeout message and the client infos received so far went to
\* every player of the game.
C11_TimeoutResetsStartingGame ==
  [][\A g \in Games :
       C11_TimeoutHandled(g) =>
         /\ status[g] = "Starting"
         /\ status'[g] = "Preparing"
         /\ last'.sent =
              {[to |-> q, via |-> "broadcast", type |-> "GameStartReject",
                game |-> g, player |-> None, arg |-> <<None, None>>,
                message |-> TimeoutMessage, map |-> startState[g]] :
                 q \in players[g]}]_vars

\* what start_game owes a call, from the state it finds
C12_Expected(g, p) ==
  IF ~GameFound(g) THEN "GameNotFound"
  ELSE IF status[g] # "Preparing" THEN "GameBusy"
  ELSE IF p # HostOf(g) THEN "PlayerNotHost"
  ELSE IF node[g] = None THEN "GameNodeNotSelected"
  ELSE "Ok"

\* start_game returned in this step
C12_Returned == last' # last /\ last'.op = "start_game"

\* a started game is Starting and GameStarting went to its players; a
\* refused call changed no status and broadcast nothing
C12_Effect ==
  LET g == last'.game
  IN IF last'.res = "Ok"
       THEN /\ status[g] = "Preparing"
            /\ status' = [status EXCEPT ![g] = "Starting"]
            /\ last'.sent =
                 {[to |-> q, via |-> "broadcast", type |-> "GameStarting",
                   game |-> g, player |-> None, arg |-> <<None, None>>,
                   message |-> "", map |-> EmptyInfoMap] : q \in players[g]}
       ELSE /\ status' = status
            /\ last'.sent = {}

\* C12 as claimed: start_game starts the game only for the host of a
\* Preparing game with a selected node, and otherwise returns GameNotFound,
\* GameBusy, PlayerNotHost or GameNodeNotSelected respectively, leaving the
\* status alone and broadcasting nothing.
C12_StartGameChecks ==
  [][C12_Returned =>
       /\ last'.res = C12_Expected(last'.game, last'.player)
       /\ C12_Effect]_vars

\* C12 as amended: the same, except that for the host of a Preparing game
\* the call may also return the error of the failed database read, with the
\* status unchanged and nothing broadcast.
C12_StartGameChecksOrDbError ==
  [][C12_Returned =>
       LET g == last'.game
           p == last'.player
       IN /\ \/ last'.res = C12_Expected(g, p)
             \/ /\ last'.res = "DbError"
                /\ C12_Expected(g, p) \in {"GameNodeNotSelected", "Ok"}
          /\ C12_Effect]_vars

\* the host started a game that peers have joined
C12_Witness ==
  /\ last.op = "start_game"
  /\ last.res = "Ok"
  /\ status[last.game] = "Starting"
  /\ Cardinality(players[last.game]) >= 2

\* select_game_node returned in this step for a game it found
C13_Returned ==
  /\ last' # last
  /\ last'.op = "select_game_node"
  /\ GameFound(last'.game)

\* the call of a player who is not the host
C13_Refused ==
  /\ last'.res = "PlayerNotHost"
  /\ node' = node
  /\ last'.sent = {}

\* node_id is the game's selected node and GameSelectNode{game_id, node_id}
\* went to every player of the game
C13_Selected(g, node_id) ==
  /\ node'[g] = node_id
  /\ last'.sent =
       {[to |-> q, via |-> "broadcast", type |-> "GameSelectNode",
         game |-> g, player |-> None, arg |-> <<node_id, None>>,
         message |-> "", map |-> EmptyInfoMap] : q \in players[g]}

\* C13 as claimed: a player other than the host gets PlayerNotHost, the
\* node is unchanged and nothing is broadcast; the host's call sets the
\* selected node to node_id (possibly none) and broadcasts GameSelectNode
\* to every player of the game.
C13_SelectNodeHostOnly ==
  [][C13_Returned =>
       LET g == last'.game
       IN IF last'.player # HostOf(g) THEN C13_Refused
          ELSE \E n \in Nodes \cup {None} : C13_Selected(g, n)]_vars

\* C13 as amended: the host's call does so unless the database update
\* fails; then it returns that error, the node is unchanged and nothing is
\* broadcast.
C13_SelectNodeHostOnlyOrDbError ==
  [][C13_Returned =>
       LET g == last'.game
       IN IF last'.player # HostOf(g) THEN C13_Refused
          ELSE \/ /\ last'.res = "Ok"
                  /\ \E n \in Nodes \cup {None} : C13_Selected(g, n)
               \/ /\ last'.res = "DbError"
                  /\ node' = node
                  /\ last'.sent = {}]_vars

\* the host of a game with peers has cleared the selected node
C13_Witness ==
  /\ last.op = "select_game_node"
  /\ last.res = "Ok"
  /\ last.player = HostOf(last.game)
  /\ node[last.game] = None
  /\ Cardinality(players[last.game]) >= 2
  /\ Cardinality(last.sent) >= 2

\* leave_game returned in this step after ending the game g
C14_GameEnded(g) ==
  /\ last' # last
  /\ last'.op = "leave_game"
  /\ last'.game = g
  /\ last'.res = "Ok"
  /\ status[g] = "Preparing"
  /\ status'[g] = "Ended"

\* C14: when the leave of the host or of the last member has ended a
\* Preparing game, the game is Ended, its in-memory member list holds none
\* of the removed players (all its members), and no player's
\* joined_game_id is the game any more.
C14_EndedGameEvictsAll ==
  [][\A g \in Games :
       C14_GameEnded(g) =>
         /\ players'[g] = {}
         /\ \A q \in Players : joined'[q] # g]_vars

\* the peers of the host in the game g that the returning leave has ended:
\* the members still listed and the players the leave sent something to
C15_Peers(g) ==
  (players[g] \cup {pkt.to : pkt \in last'.sent}) \ {HostOf(g)}

\* C15: when the host's leave has ended a game that peers had joined, every
\* peer was sent GamePlayerLeave{player_id = host, reason = Left} and the
\* game is Ended.
C15_HostLeaveNotifiesPeers ==
  [][\A g \in Games :
       (C14_GameEnded(g) /\ last'.player = HostOf(g)) =>
         /\ status'[g] = "Ended"
         /\ \A q \in C15_Peers(g) :
              \E pkt \in last'.sent :
                /\ pkt.to = q
                /\ pkt.type = "GamePlayerLeave"
                /\ pkt.game = g
                /\ pkt.player = HostOf(g)]_vars

\* the leave_game call of player p returned Ok in this step, p was a member
\* of g and the game goes on
C16_Left(g, p) ==
  /\ last' # last
  /\ last'.op = "leave_game"
  /\ last'.player = p
  /\ last'.res = "Ok"
  /\ joined[p] = g
  /\ status'[g] # "Ended"

\* PacketGamePlayerLeave { game_id, player_id, reason: Left } for `to`
C16_PlayerLeave(to, g, p) ==
  [to |-> to, via |-> "broadcast", type |-> "GamePlayerLeave", game |-> g,
   player |-> p, arg |-> <<None, None>>, message |-> "", map |-> EmptyInfoMap]

\* the session update of a player that has left its game
C16_Update(p) ==
  [to |-> p, via |-> "sender", type |-> "PlayerSessionUpdate", game |-> None,
   player |-> p, arg |-> <<None, None>>, message |-> "", map |-> EmptyInfoMap]

\* only the leaver is removed and detached, and the game stays as it was
C16_Frame(g, p) ==
  /\ p # HostOf(g)
  /\ players' = [players EXCEPT ![g] = @ \ {p}]
  /\ joined' = [joined EXCEPT ![p] = None]
  /\ status' = status
  /\ node' = node

\* C16 as claimed: a player who is neither host nor last member leaves a
\* Preparing game: only that player is removed and detached, the game stays
\* open, the leaver is sent a session update and every remaining player is
\* sent GamePlayerLeave for the leaver.
C16_LeaverOnlyRemoved ==
  [][\A g \in Games, p \in Players :
       C16_Left(g, p) =>
         /\ C16_Frame(g, p)
         /\ last'.sent = {C16_Update(p)}
              \cup {C16_PlayerLeave(q, g, p) : q \in players'[g]}]_vars

\* C16 as amended: the session update is sent to the leaver if the leaver
\* has a sender, and not at all otherwise.
C16_LeaverOnlyRemovedUpdateIfConnected ==
  [][\A g \in Games, p \in Players :
       C16_Left(g, p) =>
         /\ C16_Frame(g, p)
         /\ \E update \in SUBSET {C16_Update(p)} :
              last'.sent = update
                \cup {C16_PlayerLeave(q, g, p) : q \in players'[g]}]_vars

\* a peer has left a game in which the host and another peer remain
C16_Witness ==
  /\ last.op = "leave_game"
  /\ last.res = "Ok"
  /\ last.game \in Games
  /\ status[last.game] = "Preparing"
  /\ joined[last.player] = None
  /\ Cardinality(players[last.game]) >= 2
  /\ \E pkt \in last.sent : pkt.type = "GamePlayerLeave"

\* the join_game call of player p for game g returned Ok in this step
C17_Joined(g, p) ==
  /\ last' # last
  /\ last'.op = "join_game"
  /\ last'.game = g
  /\ last'.player = p
  /\ last'.res = "Ok"

\* PacketGamePlayerEnter for `to`: the slot of the joiner p in game g
C17_PlayerEnter(to, g, p) ==
  [to |-> to, via |-> "broadcast", type |-> "GamePlayerEnter", game |-> g,
   player |-> p, arg |-> <<None, None>>, message |-> "", map |-> EmptyInfoMap]

\* C17: a successful join_game has sent GameInfo for the joined game to the
\* joiner if the joiner has a sender, and GamePlayerEnter with the joiner's
\* slot to every other player of the game and not to the joiner.
C17_JoinNotifies ==
  [][\A g \in Games, p \in Players :
       C17_Joined(g, p) =>
         /\ p \in players'[g]
         /\ p \in last'.online =>
              \E pkt \in last'.sent :
                pkt.to = p /\ pkt.type = "GameInfo" /\ pkt.game = g
         /\ {pkt \in last'.sent : pkt.type = "GamePlayerEnter"} =
              {C17_PlayerEnter(q, g, p) : q \in players'[g] \ {p}}
         /\ \A pkt \in last'.sent :
              pkt.type \in {"GamePlayerEnter", "GameInfo", "PlayerSessionUpdate"}
         /\ \A pkt \in last'.sent :
              pkt.type # "GamePlayerEnter" => pkt.to = p]_vars

\* a connected player has joined a game that has two other players
C17_Witness ==
  /\ last.op = "join_game"
  /\ last.res = "Ok"
  /\ last.player \in last.online
  /\ Cardinality({pkt \in last.sent : pkt.type = "GamePlayerEnter"}) >= 2

\* the precondition of join_game that fails first for player p and game g,
\* or "pass"
C18_Expected(g, p) ==
  IF joined[p] # None THEN "MultiJoin"
  ELSE IF ~GameFound(g) THEN "GameNotFound"
  ELSE IF status[g] # "Preparing" THEN "GameBusy"
  ELSE "pass"

C18_Errors == {"MultiJoin", "GameNotFound", "GameBusy"}

\* C18: join_game checks in this order: a player that has joined a game
\* (even this one) gets MultiJoin, a game that is not found GameNotFound, a
\* game that is not Preparing GameBusy; it returns these errors in no other
\* case, and with each of them no database join was made, no packet was
\* sent and nobody joined.
C18_JoinPreconditionsInOrder ==
  [][(last' # last /\ last'.op = "join_game") =>
       LET g == last'.game
           p == last'.player
       IN /\ C18_Expected(g, p) # "pass" => last'.res = C18_Expected(g, p)
          /\ last'.res \in C18_Errors =>
               /\ last'.res = C18_Expected(g, p)
               /\ dbSlots' = dbSlots
               /\ joined' = joined
               /\ players' = players
               /\ last'.sent = {}]_vars

\* a member of a game was refused joining that same game
C18_Witness ==
  /\ last.op = "join_game"
  /\ last.res = "MultiJoin"
  /\ joined[last.player] = last.game

\* update_game_slot_settings returned in this step for a game it found
C19_Returned ==
  /\ last' # last
  /\ last'.op = "update_game_slot_settings"
  /\ GameFound(last'.game)

\* C19: update_game_slot_settings changes the settings of the caller's own
\* slot only; a caller who is not a member of the game gets PlayerNotInGame
\* with no database update and no broadcast; on success GameSlotUpdate with
\* the caller's slot and the stored settings went to every player of the
\* game.
C19_OwnSlotOnly ==
  [][C19_Returned =>
       LET g == last'.game
           p == last'.player
       IN /\ \A q \in Players \ {p} : dbSettings'[q] = dbSettings[q]
          /\ dbSlots' = dbSlots
          /\ p \notin players[g] =>
               /\ last'.res = "PlayerNotInGame"
               /\ dbSettings' = dbSettings
               /\ last'.sent = {}
          /\ last'.res = "Ok" =>
               last'.sent =
                 {[to |-> q, via |-> "broadcast", type |-> "GameSlotUpdate",
                   game |-> g, player |-> p,
                   arg |-> <<dbSettings'[p], None>>, message |-> "",
                   map |-> EmptyInfoMap] : q \in players[g]}
          /\ last'.res # "Ok" =>
               /\ dbSettings' = dbSettings
               /\ last'.sent = {}]_vars

\* a peer changed its slot settings in a game with several players
C19_Witness ==
  /\ last.op = "update_game_slot_settings"
  /\ last.res = "Ok"
  /\ last.player # HostOf(last.game)
  /\ dbSettings[last.player] # 1
  /\ Cardinality(last.sent) >= 2

\* ---------------------------------------------------------------- C20
ClientDisconnect(reason) == Frame("ClientDisconnect", reason, None)
\* connection c takes a Disconnect message from its queue in this step
C20_TakesDisconnect(c) ==
  /\ conn[c].pc = "loop"
  /\ queue[c] # <<>>
  /\ Head(queue[c]).kind = "Disconnect"
  /\ queue'[c] = Tail(queue[c])
\* connection c registers while another connection holds its player's sender
C20_Displaces(c) ==
  /\ conn[c].pc = "accepted"
  /\ conn'[c].pc = "initial"
  /\ registry[conn[c].player] # None
C20_Step ==
  \A c \in Conns :
    /\ C20_Displaces(c) =>
         LET old == registry[conn[c].player]
         IN /\ registry'[conn[c].player] = c
            /\ queue'[old] = Append(queue[old], DisconnectMsg("MultiLogin"))
    /\ C20_TakesDisconnect(c) =>
         /\ conn'[c].pc = "cleanup"
         /\ conn'[c].written \in
              {conn[c].written,
               Append(conn[c].written, ClientDisconnect(Head(queue[c]).reason))}
    /\ conn[c].pc \in {"cleanup", "ended"} =>
         /\ conn'[c].written = conn[c].written
         /\ conn'[c].pc \in {"cleanup", "ended"}
C20_OneSenderPerPlayer ==
  \A p \in ConnPlayers :
    Cardinality({c \in Conns : registry[p] = c}) <= 1

\* C20 (as stated): a connection whose sender was replaced by a second
\* connection of the same player wrote ClientDisconnect{MultiLogin} as the
\* last frame of its stream by the time it has ended.
C20_DisplacedWritesMultiLogin ==
  \A c \in Conns :
    (conn[c].displaced /\ conn[c].pc = "ended") =>
      /\ conn[c].written # <<>>
      /\ conn[c].written[Len(conn[c].written)] = ClientDisconnect("MultiLogin")

\* C20 (amended): at most one connection is registered as a player's sender;
\* a second connection that registers replaces the first as sender and puts
\* Disconnect{MultiLogin} on the first one's queue; a handler that takes a
\* Disconnect{reason} from its queue leaves its loop having written
\* ClientDisconnect{reason} or, when that write fails, nothing; a handler
\* that has left its loop writes nothing more and never re-enters it.
C20_MultiLoginDisplacement ==
  /\ []C20_OneSenderPerPlayer
  /\ [][C20_Step]_vars

\* the first connection was displaced and has left its loop with
\* ClientDisconnect{MultiLogin} as its last frame while the second one is
\* the registered sender and runs its loop
C20_Witness ==
  \E c1 \in Conns, c2 \in Conns :
    /\ c1 # c2
    /\ conn[c1].displaced
    /\ conn[c1].pc = "cleanup"
    /\ conn[c1].written # <<>>
    /\ conn[c1].written[Len(conn[c1].written)] = ClientDisconnect("MultiLogin")
    /\ conn[c2].player = conn[c1].player
    /\ conn[c2].pc = "loop"
    /\ registry[conn[c2].player] = c2

\* ---------------------------------------------------------------- C21
\* connection c2 displaced c1, c1 took the Disconnect{MultiLogin}, wrote
\* ClientDisconnect{MultiLogin} and has run its cleanup; c2 runs its loop
C21_Displaced(c1, c2) ==
  /\ c1 # c2
  /\ conn[c1].displaced
  /\ conn[c1].exit.why = "disconnect"
  /\ conn[c1].written # <<>>
  /\ conn[c1].written[Len(conn[c1].written)] = ClientDisconnect("MultiLogin")
  /\ conn[c1].pc = "ended"
  /\ conn[c2].player = conn[c1].player
  /\ ~conn[c2].displaced
  /\ conn[c2].pc = "loop"

\* C21: after a multi-login displacement, once the displaced first
\* connection has run its cleanup, the player's registered sender is still
\* the second connection's, which is connected.
C21_SecondStaysRegistered ==
  \A c1 \in Conns, c2 \in Conns :
    C21_Displaced(c1, c2) => registry[conn[c2].player] = c2

\* ---------------------------------------------------------------- C22
\* C22: a connection that registered with Connect sends exactly one
\* Disconnect{player_id} to the player registry, and sends it after its
\* dispatch loop has ended, whatever ended it; a connection rejected at the
\* handshake or for an old client version sends neither Connect nor
\* Disconnect.
C22_OneDisconnectPerConnect ==
  \A c \in Conns :
    /\ conn[c].connects <= 1
    /\ conn[c].disconnects <= conn[c].connects
    /\ conn[c].disconnects = 1 =>
         conn[c].pc = "ended" /\ conn[c].exit.why # "none"
    /\ (conn[c].pc = "ended" /\ conn[c].connects = 1) => conn[c].disconnects = 1
    /\ conn[c].hs \in {"recv_error", "invalid_token", "too_old"} =>
         conn[c].connects = 0 /\ conn[c].disconnects = 0
    /\ conn[c].exit.why # "none" => conn[c].pc \in {"cleanup", "ended"}

\* the loops of two registered connections have ended for different reasons
\* and each has sent its Disconnect
C22_Witness ==
  \E c1 \in Conns, c2 \in Conns :
    /\ conn[c1].connects = 1 /\ conn[c1].disconnects = 1
    /\ conn[c2].connects = 1 /\ conn[c2].disconnects = 1
    /\ conn[c1].exit.why = "heartbeat"
    /\ conn[c2].exit.why = "dropped"

\* ---------------------------------------------------------------- C23
\* C23: after a Ping was written and its timeout armed, unless an inbound
\* frame is received and handled, the dispatch loop eventually ends.
C23_PingTimeoutEndsLoop ==
  \A c \in Conns :
    (conn[c].timer = "armed") ~> (conn[c].pc # "loop" \/ conn[c].heard)

\* the loop was ended by the heartbeat timeout with no frame received since
\* the Ping
C23_Witness ==
  \E c \in Conns :
    /\ conn[c].exit.why = "heartbeat"
    /\ conn[c].pings > 0
    /\ ~conn[c].heard
    /\ conn[c].pc = "ended"

\* ---------------------------------------------------------------- C24
\* C24: a connection on which a frame was received and handled after a Ping
\* is not closed by the heartbeat timeout armed for that Ping.
C24_FrameCancelsTimeout ==
  \A c \in Conns :
    ~(conn[c].exit.why = "heartbeat" /\ conn[c].heard)

C26_InvalidTokenRejected ==
  \A c \in Conns :
    conn[c].hs = "invalid_token" =>
      /\ conn[c].pc = "ended"
      /\ conn[c].written = <<ClientConnectReject("InvalidToken")>>
      /\ conn[c].connects = 0
      /\ \A p \in ConnPlayers : registry[p] # c

\* ---------------------------------------------------------------- C27
C27_InitialTypes == {"ClientConnectAccept", "GameInfo", "GamePlayerToken"}
\* the number of initial-state frames the database row calls for
C27_Count(db) ==
  IF db.game_id = None THEN 1 ELSE IF db.token THEN 3 ELSE 2
\* the initial state connection c has written is the one its row calls for
C27_InitialState(c) ==
  LET w == conn[c].written
      db == conn[c].db
      n == C27_Count(db)
  IN /\ Len(w) >= n
     /\ w[1].type = "ClientConnectAccept"
     /\ w[1].status = (IF db.game_id # None THEN "InGame" ELSE "Idle")
     /\ w[1].game_id = db.game_id
     /\ db.game_id # None =>
          w[2].type = "GameInfo" /\ w[2].game_id = db.game_id
     /\ (db.game_id # None /\ db.token) =>
          /\ w[3].type = "GamePlayerToken"
          /\ w[3].game_id = db.game_id
          /\ w[3].node_id = db.node_id
          /\ w[3].player_id = conn[c].player
     /\ \A i \in 1 .. Len(w) : (w[i].type \in C27_InitialTypes) <=> (i <= n)

\* C27: on an accepted connection that has written anything, the first
\* frame is ConnectAccept, with session status InGame and the game id
\* exactly when the player has an active slot and Idle with no game id
\* otherwise, followed by GameInfo of that game and, when a node token is
\* stored (a Created game), by GamePlayerToken; every Ping and every packet
\* taken from the outbound queue comes after these frames.
C27_InitialStateFirst ==
  \A c \in Conns :
    (conn[c].hs = "ok" /\ conn[c].written # <<>>) => C27_InitialState(c)

\* a player in a Created game has been sent the three initial frames, then a
\* packet that was enqueued for the player, then a Ping
C27_Witness ==
  \E c \in Conns :
    /\ conn[c].db.game_id # None /\ conn[c].db.token
    /\ Len(conn[c].written) >= 5
    /\ conn[c].written[4].type = "Frame"
    /\ conn[c].written[5].type = "Ping"

\* ---------------------------------------------------------------- C28
\* the positions of the queued packets among connection c's written frames
C28_Packets(c) ==
  {i \in 1 .. Len(conn[c].written) : conn[c].written[i].type = "Frame"}
\* packets carry the number of their enqueueing: the written ones are in
\* that order, none twice, all before the ones still queued; a
\* ClientDisconnect is the last frame written
C28_Ordered ==
  \A c \in Conns :
    LET w == conn[c].written
    IN /\ \A i \in C28_Packets(c), j \in C28_Packets(c) :
            i < j => w[i].seq < w[j].seq
       /\ \A i \in C28_Packets(c), k \in 1 .. Len(queue[c]) :
            queue[c][k].kind = "Frame" => w[i].seq < queue[c][k].seq
       /\ \A k \in 1 .. Len(queue[c]), l \in 1 .. Len(queue[c]) :
            (k < l /\ queue[c][k].kind = "Frame" /\ queue[c][l].kind = "Frame")
              => queue[c][k].seq < queue[c][l].seq
       /\ \A i \in 1 .. Len(w) : w[i].type = "ClientDisconnect" => i = Len(w)
\* a step that takes a message from connection c's queue takes the oldest
\* one; a packet taken while the connection stays open is the frame written;
\* a taken Disconnect closes the loop with ClientDisconnect or nothing
\* written; nothing is written once the loop is left
C28_Step ==
  \A c \in Conns :
    /\ queue'[c] # queue[c] =>
         \/ \E m \in {FrameMsg(frameNo + 1), DisconnectMsg("MultiLogin")} :
              queue'[c] = Append(queue[c], m)
         \/ /\ queue[c] # <<>>
            /\ queue'[c] = Tail(queue[c])
            /\ LET msg == Head(queue[c])
               IN IF msg.kind = "Frame"
                    THEN \/ conn'[c].written =
                              Append(conn[c].written, Frame("Frame", "none", msg.seq))
                         \/ /\ conn'[c].written = conn[c].written
                            /\ conn'[c].pc = "cleanup"
                    ELSE /\ conn'[c].pc = "cleanup"
                         /\ conn'[c].written \in
                              {conn[c].written,
                               Append(conn[c].written,
                                      Frame("ClientDisconnect", msg.reason, None))}
    /\ (conn'[c].written # conn[c].written
          /\ conn'[c].written[Len(conn'[c].written)].type \in {"Frame", "ClientDisconnect"})
         => queue'[c] # queue[c]
    /\ conn[c].pc \in {"cleanup", "ended"} => conn'[c].written = conn[c].written

\* C28: packets taken from a connection's outbound queue are written in the
\* order they were enqueued, none twice and none skipped while the
\* connection stays open, and once a Disconnect{reason} is taken from the
\* queue nothing but the ClientDisconnect is written, as the last frame.
C28_OutboundFifo == []C28_Ordered /\ [][C28_Step]_vars

\* a connection wrote two queued packets in order and then, displaced, the
\* ClientDisconnect
C28_Witness ==
  \E c \in Conns :
    /\ Cardinality(C28_Packets(c)) >= 2
    /\ conn[c].written[Len(conn[c].written)].type = "ClientDisconnect"
    /\ conn[c].exit.why = "disconnect"

\* ---------------------------------------------------------------- C29
\* C29: when broadcast(A) had reached a recipient before broadcast(B) was
\* issued, no recipient of both has B before A in its outbound queue.
C29_BroadcastFifo ==
  \A r \in Players :
    \A i \in 1 .. Len(inbox[r]), j \in 1 .. Len(inbox[r]) :
      i < j => inbox[r][j].no \notin inbox[r][i].after

\* ---------------------------------------------------------------- C30
\* C30: no connection's dispatch loop is ended by a state error that the
\* handler of an inbound request got as the addressed actor's reply.
C30_StateErrorKeepsConnection ==
  \A c \in Conns :
    ~(conn[c].exit.why = "handler" /\ conn[c].exit.err = "state_error")

\* C31: the chat MessageScope codec round-trips: decoding the bytes of an
\* encoded scope (All, Allies, Observers, Player(v) for every u8 v) gives the
\* scope that was encoded, so a Scoped chat message decodes to what was sent
C31_ScopeRoundTrip ==
  (call.op = "scope" /\ call.stage = "decoded") => call.decoded = call.scope

\* the layout of the raw buffer and of the encoded bytes
C32_RawLayout ==
  LET s == call.settings
  IN /\ Len(call.raw) = get_encode_size(s)
     /\ call.raw = put_u32_le(s.game_setting_flags) \o <<0>>
          \o put_u16_le(s.map_width) \o put_u16_le(s.map_height)
          \o put_u32_le(s.map_checksum) \o s.map_path \o <<0>>
          \o s.host_name \o <<0>> \o <<0>> \o s.map_sha1
     /\ call.bytes = stat_string_encode(call.raw) \o <<0>>
     /\ \A i \in 1 .. Len(call.bytes) - 1 : call.bytes[i] # 0

\* C32: GameSettings round-trips through the stat-string packing, empty
\* map_path and host_name included: the raw buffer is flags (u32 LE), 0x00,
\* width, height (u16 LE), checksum (u32 LE), map_path NUL, host_name NUL,
\* 0x00 and the 20 sha1 bytes, as long as get_encode_size says; one 0x00
\* follows the stat-string; decoding gives the settings that were encoded
C32_SettingsRoundTrip ==
  /\ (call.op = "settings" /\ call.stage # "built") => C32_RawLayout
  /\ (call.op = "settings" /\ call.stage = "decoded") =>
       /\ call.decoded.ok
       /\ call.decoded.value = call.settings
       /\ call.decoded.rest = call.after

\* the lock a task is waiting for, and the task holding it: a join_game or
\* leave_game call waiting for the game-state lock, or leave_game's loop
\* waiting for the player-state lock of a removed player
C33_WaitsFor(t, u) ==
  \/ /\ task[t].pc = "join_lock_game"
     /\ GameFound(task[t].g)
     /\ gameLock[task[t].g] = u
  \/ /\ task[t].pc = "leave_lock_game"
     /\ GameFound(task[t].jg)
     /\ gameLock[task[t].jg] = u
  \/ /\ task[t].pc = "leave_evict"
     /\ task[t].todo # <<>>
     /\ Head(task[t].todo) # task[t].p
     /\ playerLock[Head(task[t].todo)] = u

C33_NoLockCycle ==
  \A t, u \in Tasks : ~(t # u /\ C33_WaitsFor(t, u) /\ C33_WaitsFor(u, t))

\* C33: join_game and leave_game are deadlock-free: with concurrent calls by
\* different players on the same game, no state is reachable in which two
\* tasks each wait for a lock the other holds, and under fair scheduling
\* every call eventually returns
C33_DeadlockFree ==
  /\ []C33_NoLockCycle
  /\ \A t \in Tasks : (task[t].pc # "idle") ~> (task[t].pc = "idle")

\* the step in which a join_game call returns an error
C34_JoinFails ==
  /\ last'.op = "join_game"
  /\ last'.res # "Ok"
  /\ \/ last' # last
     \/ \E t \in Tasks : task[t].pc = "join_lock_game" /\ task'[t].pc = "idle"

\* C34: join_game is all-or-nothing: whenever it returns an error (MultiJoin,
\* GameNotFound, GameBusy, a database failure, a failed send of the session
\* update or of GameInfo to the joiner), the player's joined_game_id and the
\* game's in-memory player list are what they were before the call
C34_JoinAllOrNothing ==
  [][C34_JoinFails => (joined' = joined /\ players' = players)]_vars

\* C35: membership events reach peers in causal order: for a player p who
\* joins a game and then leaves it, no other member has GamePlayerLeave for
\* p in its queue before GamePlayerEnter for that join, in any interleaving
C35_EnterBeforeLeave ==
  \A r \in Players :
    \A i \in 1 .. Len(inbox[r]), j \in 1 .. Len(inbox[r]) :
      ~(/\ i < j
        /\ inbox[r][i].type = "GamePlayerLeave"
        /\ inbox[r][j].type = "GamePlayerEnter"
        /\ inbox[r][i].player = inbox[r][j].player
        /\ inbox[r][i].player # r
        /\ inbox[r][j].no < inbox[r][i].no)

\* the step in which leave_game returns at once: the player is in no game
C37_ReturnsAtOnce ==
  /\ <<call, last>>' # <<call, last>>
  /\ task' = task
  /\ last'.op = "leave_game"

\* the step in which a leave_game call returns whose game_id argument is
\* not the game the player is recorded in
C37_MismatchReturns ==
  /\ call.op = "leave_game"
  /\ call.recorded # None
  /\ call.game_id # call.recorded
  /\ task[NumTasks].op = "leave_game"
  /\ task'[NumTasks].pc = "idle"

\* C37: leave_game acts on the game the player is recorded in: with no
\* recorded game it returns Ok, changes nothing and sends nothing; with a
\* game_id argument that differs from the recorded game it is the recorded
\* game that is looked up and that the player is removed from, and no other
\* game's state changes
C37_LeaveStep ==
  /\ C37_ReturnsAtOnce =>
       /\ call'.recorded = None
       /\ last'.res = "Ok"
       /\ last'.sent = {}
       /\ UNCHANGED <<memVars, dbVars, lockVars>>
  /\ C37_MismatchReturns =>
       /\ last'.res = "GameNotFound" => ~GameFound(call.recorded)
       /\ last'.res = "Ok" =>
            /\ joined'[call.player_id] = None
            /\ call.player_id \notin players'[call.recorded]
            /\ call.player_id \notin dbSlots'[call.recorded]
  /\ (task[NumTasks].op = "leave_game" /\ call.op = "leave_game") =>
       \A g \in Games \ {call.recorded} :
         /\ players'[g] = players[g]
         /\ status'[g] = status[g]
         /\ dbSlots'[g] = dbSlots[g]

C36_PingEventuallySent ==
  (conn[NumConns].pc = "loop" /\ conn[NumConns].pings = 0)
    ~> (conn[NumConns].pings > 0 \/ conn[NumConns].pc # "loop")

\* the node_ping_map m is the transposition of the ping books: exactly the
\* (node, player) entries of the books, each with its ping, and no node
\* without a player
C38_Transposed(m, map) ==
  /\ \A n \in DOMAIN m : DOMAIN m[n] # {}
  /\ \A p \in ConnPlayers, n \in PingNodes :
       (n \in DOMAIN m /\ p \in DOMAIN m[n])
         <=> (p \in DOMAIN map /\ n \in DOMAIN map[p])
  /\ \A p \in DOMAIN map : \A n \in DOMAIN map[p] :
       m[n][p] = pack(map[p][n])

\* C38: the ping snapshot reply is the exact transposition of the players'
\* ping books: node_ping_map[n].player_ping_map[p] is the ping exactly for
\* the (p, n, ping) of the books, nothing else, and the reply is sent only
\* to the requesting player
C38_SnapshotTransposed ==
  /\ (call.op = "ping_snapshot" /\ call.stage # "sent") => call.sent = {}
  /\ (call.op = "ping_snapshot" /\ call.stage = "sent") =>
       /\ Cardinality(call.sent) = 1
       /\ \A pkt \in call.sent :
            /\ pkt.to = call.player_id
            /\ pkt.game_id = call.game_id
            /\ C38_Transposed(pkt.node_ping_map, call.map)

\* a reply was sent for books in which two players have different pings to
\* one node and one player has pings to two nodes
C38_Witness ==
  /\ call.op = "ping_snapshot"
  /\ call.stage = "sent"
  /\ DOMAIN call.map = ConnPlayers
  /\ \E n \in PingNodes :
       /\ \A p \in ConnPlayers : n \in DOMAIN call.map[p]
       /\ \E p, q \in ConnPlayers : call.map[p][n] # call.map[q][n]
  /\ \E p \in ConnPlayers : DOMAIN call.map[p] = PingNodes
  /\ \E p \in ConnPlayers : DOMAIN call.map[p] # PingNodes

====
